---------------------------- MODULE Spec2Model ----------------------------
(***************************************************************************)
(* A model of the TaskData (ISO 11783) reader: the geometry extraction of  *)
(* pyagri/geo.py, the multi-source merge of                                *)
(* extract_unique_fields_to_geojson, and the two DDI resolution paths      *)
(* (parse_taskdata_to_dataframe for XML DLV entries, cython_read_dlvs for  *)
(* the trailer of a binary log record).                                    *)
(*                                                                         *)
(* Python values are modelled as follows.  None is the string NoneVal.  A  *)
(* float coordinate is a record [nan, v] with v in tenths of a degree.  An *)
(* XML element is a record of its tag, its attributes (NoneVal when the    *)
(* attribute is absent) and the sequence of its children.                  *)
(***************************************************************************)
EXTENDS Integers, Sequences, FiniteSets, TLC

VARIABLES
    \* ---- one LSG element being walked (geo.py lines 95-110)
    lsg,                \* the children of the LSG read so far
    ring,               \* the list `ring` of [lon, lat] pairs
    polygon_rings,      \* the list `polygon_rings` this LSG contributes to
    ringPc,             \* "idle" | "read" | "done"
    \* ---- extract_unique_fields_to_geojson (geo.py lines 34-250)
    src_folders,        \* the argument: the list of source folders
    srcIdx,             \* how many folders the loop of line 56 has taken
    geoPc,              \* "idle" | "next" | "fields" | "tasks" | "built" | "raised"
    products,           \* the dict `products` of the current source
    fields_by_composite_id,
    tasks_by_composite_id,
    features,           \* the list `features` written to the output
    docs,               \* what was read: per source, its path and elements
    geo_out,            \* the file at out_path: absent, as found, or as written
    \* ---- DDI resolution: the DLV loop of parse_taskdata_to_dataframe
    \*      (taskdata_report.py 154-190) and cython_read_dlvs
    resPc,              \* "idle" | "xml" | "bin" | "raised" | "returned"
    dvc_id_for_task,    \* the device of the task's DAN element, or NoneVal
    logged_values,      \* the list `logged_values` of the task
    xmlLog,             \* the DLV elements resolved, each with its result
    nr_dlvs,            \* the trailer count handed to cython_read_dlvs
    read_point,         \* the read cursor, in bytes
    data_row,           \* the row being filled
    unit_row,           \* the units recorded per column
    warnings,           \* the number of warnings issued
    binLog,             \* the trailer entries read, each with its outcome
    \* ---- the binary log decoder (read_static_binary_data and the loop
    \*      that calls it and cython_read_dlvs for each record)
    tlg_ptn,            \* the attribute keys of the task's PTN element
    binary_data,        \* the file: its whole records and its trailing bytes
    decPos,             \* read_point of the decode loop, in bytes
    decRow,             \* what read_static_binary_data returned last
    decRows,            \* the records decoded so far
    decPc,              \* "idle" | "header" | "trailer" | "eof" | "raised"
    \* ---- export_taskdata (export.py lines 21-81)
    csv_files,          \* the CSV files of the output directory
    exports,            \* the export calls made, each with its tasks
    expPc,              \* "idle" | "ready"
    \* ---- extract_taskdata_to_geojson (pyAgriculture/geo.py lines 26-152)
    out_file,           \* the features of the output file, or no file
    old_file,           \* the output file as it was before the call
    td_folder,          \* the source folder of the call
    td_elems,           \* the PFD and TSK elements read from its document
    td_features,        \* the list `features`
    tdPc,               \* "idle" | "find" | "parse" | "written" | "raised"
    \* ---- parse_taskdata_to_dataframe on one document (taskdata_report.py
    \*      lines 75-223)
    rep_doc,            \* the document: its namespace and its elements
    rep_rows,           \* the list all_task_rows
    repPc,              \* "idle" | "read" | "parsed" | "raised"
    \* ---- the probe of the compiled extension when pyagri.agriculture loads
    cython_importable,  \* whether `import pyagri.cython_agri` succeeds now
    CYTHON_AVAILABLE,   \* the module flag, with the functions bound at load
    ag_instances,       \* the PyAgriculture objects constructed so far
    agPc                \* "idle" | "unloaded" | "loaded"

ringVars == <<lsg, ring, polygon_rings, ringPc>>

geoVars == <<src_folders, srcIdx, geoPc, products, fields_by_composite_id,
             tasks_by_composite_id, features, docs, geo_out>>

resVars == <<resPc, dvc_id_for_task, logged_values, xmlLog, nr_dlvs, read_point,
             data_row, unit_row, warnings, binLog>>

decVars == <<tlg_ptn, binary_data, decPos, decRow, decRows, decPc>>

expVars == <<csv_files, exports, expPc>>

tdVars == <<out_file, old_file, td_folder, td_elems, td_features, tdPc>>

repVars == <<rep_doc, rep_rows, repPc>>

agVars == <<cython_importable, CYTHON_AVAILABLE, ag_instances, agPc>>

vars == <<ringVars, geoVars, resVars, decVars, expVars, tdVars, repVars, agVars>>

NoneVal == "None"

(***************************************************************************)
(* Bounds of the model.                                                    *)
(***************************************************************************)
MaxPnt == 4         \* children read from one LSG
MaxElem == 2        \* PFD and TSK elements read in one run, all sources
MaxDlv == 2         \* DLV entries resolved for one task or one record

(***************************************************************************)
(* float(): the attribute strings of the model and what float() makes of   *)
(* them.  Two spellings of one number parse to the same float; "abc" and   *)
(* an absent attribute (None) raise; "nan" parses to a NaN.                *)
(***************************************************************************)
Fin(n) == [nan |-> FALSE, v |-> n]
NaN == [nan |-> TRUE, v |-> 0]

FloatParses(s) == s \in {"55.0", "55.00", "55.1", "12.0", "12.1", "nan"}

FloatOf(s) ==
    CASE s = "55.0"  -> Fin(550)
      [] s = "55.00" -> Fin(550)
      [] s = "55.1"  -> Fin(551)
      [] s = "12.0"  -> Fin(120)
      [] s = "12.1"  -> Fin(121)
      [] s = "nan"   -> NaN

\* `a != b` for two [lon, lat] lists built from separately parsed floats:
\* list comparison is by elements, elements compare by identity first and
\* then by value, and a NaN is equal to no other float object.
PyListNe(a, b) == a # b \/ a[1].nan \/ a[2].nan

(***************************************************************************)
(* The children an LSG element may hold.                                   *)
(***************************************************************************)
Pnt(c, d) == [tag |-> "PNT", C |-> c, D |-> d]

PntA == Pnt("55.0", "12.0")
PntA2 == Pnt("55.00", "12.0")       \* the point A, spelled differently
PntB == Pnt("55.1", "12.1")
PntC == Pnt("55.0", "12.1")
PntBadLat == Pnt("abc", "12.0")     \* float(c) raises ValueError
PntNoLon == Pnt("55.0", NoneVal)    \* float(None) raises TypeError
PntNaN == Pnt("nan", "12.0")
NotPnt == [tag |-> "XYZ", C |-> "55.1", D |-> "12.0"]

LsgChildren == {PntA, PntA2, PntB, PntC, PntBadLat, PntNoLon, PntNaN, NotPnt}

\* One iteration of `for pnt in list(lsg)`: the list `ring` after it.
PntStep(r, pnt) ==
    IF pnt.tag # "PNT" THEN r
    ELSE IF FloatParses(pnt.C) /\ FloatParses(pnt.D)
         THEN Append(r, <<FloatOf(pnt.D), FloatOf(pnt.C)>>)
         ELSE r

\* The list `ring` after the whole PNT loop over the children of an LSG.
RECURSIVE RingPoints(_)
RingPoints(children) ==
    IF children = <<>> THEN <<>>
    ELSE PntStep(RingPoints(SubSeq(children, 1, Len(children) - 1)),
                 children[Len(children)])

KeepRingLoose(r) == Len(r) > 1

\* `if len(ring) > 2`
KeepRing(r) == Len(r) > 2

CloseRingNever(r) == r

\* `if ring[0] != ring[-1]: ring.append(ring[0])`
CloseRing(r) == IF PyListNe(r[1], r[Len(r)]) THEN Append(r, r[1]) ELSE r

\* Lines 107-110: what `polygon_rings` is after this ring was handled.
AddRing(rings, r) == IF KeepRing(r) THEN Append(rings, CloseRing(r)) ELSE rings

(***************************************************************************)
(* The walk over one LSG element.                                          *)
(***************************************************************************)
RingIdle ==
    /\ lsg = <<>>
    /\ ring = <<>>
    /\ polygon_rings = <<>>
    /\ ringPc = "idle"

\* The file at out_path before the call: none, or one left by an earlier
\* run.
AbsentFile == [exists |-> FALSE, stamp |-> "none", features |-> <<>>]
FoundFile == [exists |-> TRUE, stamp |-> "found", features |-> <<>>]

GeoIdle ==
    /\ geo_out = AbsentFile
    /\ src_folders = <<>>
    /\ srcIdx = 0
    /\ geoPc = "idle"
    /\ products = <<>>
    /\ fields_by_composite_id = <<>>
    /\ tasks_by_composite_id = <<>>
    /\ features = <<>>
    /\ docs = <<>>

ResIdle ==
    /\ resPc = "idle"
    /\ dvc_id_for_task = NoneVal
    /\ logged_values = <<>>
    /\ xmlLog = <<>>
    /\ nr_dlvs = 0
    /\ read_point = 0
    /\ data_row = <<>>
    /\ unit_row = <<>>
    /\ warnings = 0
    /\ binLog = <<>>

NoRow == [data_row |-> <<>>, nr_dlvs |-> 0, nr_d |-> 0]

DecIdle ==
    /\ tlg_ptn = <<>>
    /\ binary_data = [recs |-> <<>>, tail |-> 0]
    /\ decPos = 0
    /\ decRow = NoRow
    /\ decRows = <<>>
    /\ decPc = "idle"

ExpIdle ==
    /\ csv_files = <<>>
    /\ exports = <<>>
    /\ expPc = "idle"

NoFile == [exists |-> FALSE, features |-> <<>>]

TdIdle ==
    /\ out_file = NoFile
    /\ old_file = NoFile
    /\ td_folder = <<>>
    /\ td_elems = <<>>
    /\ td_features = <<>>
    /\ tdPc = "idle"

NoDoc == [ns |-> "", nodes |-> <<>>]

RepIdle ==
    /\ rep_doc = NoDoc
    /\ rep_rows = <<>>
    /\ repPc = "idle"

NotLoaded == [loaded |-> FALSE, flag |-> FALSE, impl |-> "None"]

AgIdle ==
    /\ cython_importable = FALSE
    /\ CYTHON_AVAILABLE = NotLoaded
    /\ ag_instances = <<>>
    /\ agPc = "idle"

InitRing ==
    /\ lsg = <<>>
    /\ ring = <<>>
    /\ polygon_rings = <<>>
    /\ ringPc = "read"
    /\ GeoIdle
    /\ ResIdle
    /\ DecIdle /\ ExpIdle /\ TdIdle /\ RepIdle /\ AgIdle

\* The loop body for the next child of the LSG.
ReadChild ==
    /\ ringPc = "read"
    /\ Len(lsg) < MaxPnt
    /\ \E pnt \in LsgChildren :
          /\ lsg' = Append(lsg, pnt)
          /\ ring' = PntStep(ring, pnt)
    /\ UNCHANGED <<polygon_rings, ringPc>>
    /\ UNCHANGED <<geoVars, resVars, decVars, expVars, tdVars, repVars, agVars>>

\* The LSG has no more children: keep and close the ring, or drop it.
EndLSG ==
    /\ ringPc = "read"
    /\ polygon_rings' = AddRing(polygon_rings, ring)
    /\ ringPc' = "done"
    /\ UNCHANGED <<lsg, ring>>
    /\ UNCHANGED <<geoVars, resVars, decVars, expVars, tdVars, repVars, agVars>>

NextRing == ReadChild \/ EndLSG

SpecRing == InitRing /\ [][NextRing]_vars

(***************************************************************************)
(* Claims about one ring.                                                  *)
(***************************************************************************)
\* The distinct coordinate pairs of a list of points.
DistinctPoints(r) == {r[i] : i \in 1..Len(r)}

\* C2: every ring the extraction emits has identical first and last
\* coordinate pairs, whether the ring of the document was open or closed.
C2_RingsClosed ==
    \A i \in 1..Len(polygon_rings) :
        polygon_rings[i][1] = polygon_rings[i][Len(polygon_rings[i])]

\* C2 witness: an open ring was read and emitted, one point longer.
C2_OpenRingEmitted ==
    /\ ringPc = "done"
    /\ Len(ring) > 2
    /\ ring[1] # ring[Len(ring)]
    /\ Len(polygon_rings) = 1
    /\ Len(polygon_rings[1]) = Len(ring) + 1

\* C3 as claimed: every kept ring has at least 3 distinct points before
\* closing, so a ring such as A, B, A is not emitted.
C3_KeptRingsHaveThreeDistinct ==
    (ringPc = "done" /\ polygon_rings # <<>>)
        => Cardinality(DistinctPoints(ring)) >= 3

\* C3 amended: a ring is kept exactly when it has at least 3 valid points
\* before closing, distinct or not; the kept ring holds those points in
\* order, followed by at most the one closing point.
C3_KeptRingsHaveThreeValid ==
    ringPc = "done" =>
        /\ (polygon_rings # <<>>) <=> (Len(RingPoints(lsg)) >= 3)
        /\ Len(polygon_rings) <= 1
        /\ \A i \in 1..Len(polygon_rings) :
              /\ Len(polygon_rings[i]) \in {Len(ring), Len(ring) + 1}
              /\ SubSeq(polygon_rings[i], 1, Len(ring)) = RingPoints(lsg)

\* C3 witness: the ring A, B, A (3 valid points, 2 distinct) was emitted.
C3_RingABAEmitted ==
    /\ ringPc = "done"
    /\ lsg = <<PntA, PntB, PntA>>
    /\ polygon_rings = <<ring>>

(***************************************************************************)
(* Python dicts keep insertion order: a dict is a sequence of [k, v]       *)
(* entries with distinct keys.                                             *)
(***************************************************************************)
DictHas(d, key) == \E i \in 1..Len(d) : d[i].k = key

DictGet(d, key) == d[CHOOSE i \in 1..Len(d) : d[i].k = key].v

\* d.get(key, default)
DictGetOr(d, key, default) == IF DictHas(d, key) THEN DictGet(d, key) ELSE default

\* d[key] = value: a new key goes last, a known key keeps its place.
DictPut(d, key, value) ==
    IF DictHas(d, key)
    THEN [i \in 1..Len(d) |-> IF d[i].k = key THEN [k |-> key, v |-> value] ELSE d[i]]
    ELSE Append(d, [k |-> key, v |-> value])

DictKeys(d) == {d[i].k : i \in 1..Len(d)}

\* Python truthiness of an attribute value: neither None nor "".
Truthy(s) == s # NoneVal /\ s # ""

(***************************************************************************)
(* The geometry of a PFD element (geo.py lines 87-118).                    *)
(***************************************************************************)
Lsg(pnts) == [tag |-> "LSG", children |-> pnts]
Pln(lsgs) == [tag |-> "PLN", children |-> lsgs]

\* The list `polygon_rings` after the LSG loop over the children of a PLN.
RECURSIVE PolygonRings(_)
PolygonRings(children) ==
    IF children = <<>> THEN <<>>
    ELSE LET before == PolygonRings(SubSeq(children, 1, Len(children) - 1))
             child == children[Len(children)]
         IN  IF child.tag # "LSG" THEN before
             ELSE AddRing(before, RingPoints(child.children))

KeepPolygonAlways(rings) == TRUE

\* `if polygon_rings:`
KeepPolygon(rings) == rings # <<>>

\* The list `polygons` after the PLN loop over the children of a PFD.
RECURSIVE Polygons(_)
Polygons(children) ==
    IF children = <<>> THEN <<>>
    ELSE LET before == Polygons(SubSeq(children, 1, Len(children) - 1))
             child == children[Len(children)]
         IN  IF child.tag # "PLN" THEN before
             ELSE IF KeepPolygon(PolygonRings(child.children))
                  THEN Append(before, PolygonRings(child.children))
                  ELSE before

HasGeometryAlways(polys) == TRUE

\* `if polygons:`
HasGeometry(polys) == polys # <<>>

GeometryMulti(polys) == [type |-> "MultiPolygon", coordinates |-> polys]

\* Lines 115-118.
Geometry(polys) ==
    IF Len(polys) = 1
    THEN [type |-> "Polygon", coordinates |-> polys[1]]
    ELSE [type |-> "MultiPolygon", coordinates |-> polys]

(***************************************************************************)
(* The source folders of the model.  A folder is its parent directory, its *)
(* own name, the names of the files in it, and the PDT elements of its     *)
(* document.                                                               *)
(***************************************************************************)
Lower(name) ==
    CASE name = "TASKDATA.XML" -> "taskdata.xml"
      [] name = "TaskData.xml" -> "taskdata.xml"
      [] OTHER -> name

Pdt(a, b) == [tag |-> "PDT", A |-> a, B |-> b]

FolderA == [parent |-> "a", name |-> "TASKDATA", files |-> <<"TASKDATA.XML">>,
            pdts |-> <<Pdt("P1", "Wheat")>>, parsable |-> TRUE]
FolderA2 == [parent |-> "a", name |-> "TASKDATA 2", files |-> <<"notes.txt", "TaskData.xml">>,
             pdts |-> <<Pdt("P1", "Rye"), Pdt(NoneVal, "Oats")>>, parsable |-> TRUE]
FolderB == [parent |-> "b", name |-> "TASKDATA", files |-> <<"TaskData.xml">>,
            pdts |-> <<>>, parsable |-> TRUE]
FolderEmpty == [parent |-> "a", name |-> "EMPTY", files |-> <<"notes.txt">>,
                pdts |-> <<>>, parsable |-> TRUE]
\* A folder whose taskdata file is not well-formed XML.
FolderBroken == [parent |-> "a", name |-> "BROKEN", files |-> <<"TASKDATA.XML">>,
                 pdts |-> <<>>, parsable |-> FALSE]

SrcLists == {<<FolderA>>, <<FolderA, FolderA2>>, <<FolderA, FolderB>>,
             <<FolderEmpty, FolderB>>, <<FolderA, FolderBroken>>,
             <<FolderBroken, FolderA2>>}

\* Path(src_folder).name
FolderName(folder) == folder.name

\* str(src): the folder as a path.
FolderPath(folder) == folder.parent \o "/" \o folder.name

\* _find_taskdata_file: the first file whose lowered name is taskdata.xml;
\* NoneVal stands for the FileNotFoundError.
FindTaskdataFile(folder) ==
    LET hits == {i \in 1..Len(folder.files) : Lower(folder.files[i]) = "taskdata.xml"}
    IN  IF hits = {} THEN NoneVal
        ELSE FolderPath(folder) \o "/" \o
             folder.files[CHOOSE i \in hits : \A j \in hits : i <= j]

\* Lines 70-75: the dict `products`.
RECURSIVE ParseProducts(_)
ParseProducts(pdts) ==
    IF pdts = <<>> THEN <<>>
    ELSE LET before == ParseProducts(SubSeq(pdts, 1, Len(pdts) - 1))
             elem == pdts[Len(pdts)]
         IN  IF Truthy(elem.A) THEN DictPut(before, elem.A, elem.B) ELSE before

ParseOutcomeSkipping(folder) == IF folder.parsable THEN "fields" ELSE "next"

\* ET.parse (line 66): a document that is not well-formed raises ParseError,
\* which nothing in the function catches.
ParseOutcome(folder) == IF folder.parsable THEN "fields" ELSE "raised"

\* f"{folder_name}/{pfd_id}"
CompositeId(folder_name, local_id) == folder_name \o "/" \o local_id

(***************************************************************************)
(* The PFD and TSK elements of the model.                                  *)
(***************************************************************************)
LsgTriangle == Lsg(<<PntA, PntB, PntC>>)
LsgABA == Lsg(<<PntA, PntB, PntA>>)
LsgTwo == Lsg(<<PntA, PntBadLat, PntB>>)

GeoTriangle == <<Pln(<<LsgTriangle>>)>>
GeoMulti == <<Pln(<<LsgTwo, LsgABA>>), Pln(<<LsgTwo>>), Pln(<<LsgTriangle, LsgABA>>)>>
GeoDropped == <<Pln(<<LsgTwo>>), Pln(<<>>), Lsg(<<PntA, PntB, PntC>>)>>

PfdElems ==
    {[tag |-> "PFD", A |-> a, C |-> c, children |-> g] :
        a \in {"F1", "F2"}, c \in {NoneVal, "North"},
        g \in {GeoTriangle, GeoMulti, GeoDropped}}

Tim(a) == [tag |-> "TIM", A |-> a]
Pan(a) == [tag |-> "PAN", A |-> a]
Tlg(a) == [tag |-> "TLG", A |-> a]

Start2020 == "2020-06-01T08:00:00Z"
Start2021 == "2021-03-01T07:00:00"

TskChildren ==
    {<<>>,
     <<Tlg("TLG00001"), Tim(Start2020), Pan("P1")>>,
     <<Tim(Start2021), Tim(Start2020)>>,
     <<Tim("garbage"), Tim(Start2020), Pan("P9")>>,
     <<Tim(NoneVal), Tlg(NoneVal)>>}

TskElems ==
    {[tag |-> "TSK", A |-> a, E |-> e, children |-> ch] :
        a \in {"T1", "T2"}, e \in {NoneVal, "F1"}, ch \in TskChildren}

\* datetime.fromisoformat(start_str.replace('Z', '')) succeeds.
IsoParses(s) == s \in {Start2020, Start2021}

\* ... and its .year
IsoYear(s) ==
    CASE s = Start2020 -> 2020
      [] s = Start2021 -> 2021

\* The keys of tasks_by_composite_id[...]: a year, or 'unknown'.
YearKey(y) == [known |-> TRUE, year |-> y]
UnknownKey == [known |-> FALSE, year |-> 0]

HasChild(children, tag) == \E i \in 1..Len(children) : children[i].tag = tag

\* The first child with the given tag (the loops that break at the first
\* match); used only when there is one.
FirstChild(children, tag) ==
    children[CHOOSE i \in 1..Len(children) :
                /\ children[i].tag = tag
                /\ \A j \in 1..(i - 1) : children[j].tag # tag]

\* Lines 144-158: the bucket of a task, from its first TIM child only.
TaskYear(tsk) ==
    IF HasChild(tsk.children, "TIM")
    THEN LET tim == FirstChild(tsk.children, "TIM")
         IN  IF Truthy(tim.A) /\ IsoParses(tim.A)
             THEN YearKey(IsoYear(tim.A))
             ELSE UnknownKey
    ELSE UnknownKey

\* Lines 160-166.
TaskCrop(tsk, prods) ==
    IF HasChild(tsk.children, "PAN")
    THEN DictGetOr(prods, FirstChild(tsk.children, "PAN").A, "Unknown")
    ELSE "Unknown"

\* Lines 168-175.
TaskLogFile(tsk) ==
    IF HasChild(tsk.children, "TLG")
    THEN LET a == FirstChild(tsk.children, "TLG").A
         IN  IF Truthy(a) THEN a \o ".bin" ELSE a
    ELSE NoneVal

(***************************************************************************)
(* extract_unique_fields_to_geojson as a walk over the source folders and  *)
(* the PFD and TSK elements of their documents.                            *)
(***************************************************************************)
ElemsRead ==
    LET RECURSIVE Sum(_)
        Sum(i) == IF i = 0 THEN 0
                  ELSE Len(docs[i].pfds) + Len(docs[i].tsks) + Sum(i - 1)
    IN  Sum(Len(docs))

InitGeo ==
    /\ geo_out \in {AbsentFile, FoundFile}
    /\ src_folders \in SrcLists
    /\ srcIdx = 0
    /\ geoPc = "next"
    /\ products = <<>>
    /\ fields_by_composite_id = <<>>
    /\ tasks_by_composite_id = <<>>
    /\ features = <<>>
    /\ docs = <<>>
    /\ RingIdle
    /\ ResIdle
    /\ DecIdle /\ ExpIdle /\ TdIdle /\ RepIdle /\ AgIdle

\* Lines 56-75: the next folder of src_folders; a folder without a
\* taskdata file is warned about and skipped.
OpenSource ==
    /\ geoPc = "next"
    /\ srcIdx < Len(src_folders)
    /\ srcIdx' = srcIdx + 1
    /\ LET folder == src_folders[srcIdx + 1]
           xml_path == FindTaskdataFile(folder)
       IN  /\ docs' = Append(docs, [folder |-> FolderPath(folder),
                                    folder_name |-> FolderName(folder),
                                    path |-> xml_path,
                                    pfds |-> <<>>, tsks |-> <<>>])
           /\ IF xml_path = NoneVal
              THEN UNCHANGED <<geoPc, products>>
              ELSE /\ geoPc' = ParseOutcome(folder)
                   /\ products' = IF geoPc' = "fields"
                                  THEN ParseProducts(folder.pdts) ELSE products
    /\ UNCHANGED <<src_folders, fields_by_composite_id, tasks_by_composite_id,
                   features, geo_out>>
    /\ UNCHANGED <<ringVars, resVars, decVars, expVars, tdVars, repVars, agVars>>

\* Lines 82-127 for one PFD element: the entry stored under its composite id.
StoreField(fields, doc, elem) ==
    LET polys == Polygons(elem.children)
    IN  IF HasGeometry(polys)
        THEN DictPut(fields, CompositeId(doc.folder_name, elem.A),
                     [name |-> IF elem.C = NoneVal THEN "Unknown_" \o elem.A
                               ELSE elem.C,
                      geom |-> Geometry(polys),
                      folder |-> doc.folder_name,
                      pfd_id |-> elem.A,
                      source |-> doc.path])
        ELSE fields

\* One turn of the loop of line 78.
ParsePFD ==
    /\ geoPc = "fields"
    /\ ElemsRead < MaxElem
    /\ \E elem \in PfdElems :
          /\ fields_by_composite_id' =
                StoreField(fields_by_composite_id, docs[Len(docs)], elem)
          /\ docs' = [docs EXCEPT ![Len(docs)].pfds = Append(@, elem)]
    /\ UNCHANGED <<src_folders, srcIdx, geoPc, products, tasks_by_composite_id,
                   features, geo_out>>
    /\ UNCHANGED <<ringVars, resVars, decVars, expVars, tdVars, repVars, agVars>>

\* Lines 134-187 for one TSK element: tasks_by_composite_id after it.
StoreTask(tasks, doc, prods, tsk) ==
    IF ~Truthy(tsk.E) THEN tasks
    ELSE LET composite_field_ref == CompositeId(doc.folder_name, tsk.E)
             task_info == [TaskID |-> tsk.A,
                           Crop |-> TaskCrop(tsk, prods),
                           LogFile |-> TaskLogFile(tsk),
                           Source |-> doc.path]
             year == TaskYear(tsk)
             by_year == DictGetOr(tasks, composite_field_ref, <<>>)
         IN  DictPut(tasks, composite_field_ref,
                     DictPut(by_year, year,
                             Append(DictGetOr(by_year, year, <<>>), task_info)))

\* One turn of the loop of line 130; it runs after the PFD loop.
ParseTSK ==
    /\ geoPc \in {"fields", "tasks"}
    /\ ElemsRead < MaxElem
    /\ \E tsk \in TskElems :
          /\ tasks_by_composite_id' =
                StoreTask(tasks_by_composite_id, docs[Len(docs)], products, tsk)
          /\ docs' = [docs EXCEPT ![Len(docs)].tsks = Append(@, tsk)]
    /\ geoPc' = "tasks"
    /\ UNCHANGED <<src_folders, srcIdx, products, fields_by_composite_id, features,
                   geo_out>>
    /\ UNCHANGED <<ringVars, resVars, decVars, expVars, tdVars, repVars, agVars>>

\* The document of the current source has no more elements.
EndSource ==
    /\ geoPc \in {"fields", "tasks"}
    /\ geoPc' = "next"
    /\ UNCHANGED <<src_folders, srcIdx, products, fields_by_composite_id,
                   tasks_by_composite_id, features, docs, geo_out>>
    /\ UNCHANGED <<ringVars, resVars, decVars, expVars, tdVars, repVars, agVars>>

\* sorted(...) of a set of years.
RECURSIVE SortedYears(_)
SortedYears(ys) ==
    IF ys = {} THEN <<>>
    ELSE LET m == CHOOSE y \in ys : \A z \in ys : y <= z
         IN  <<m>> \o SortedYears(ys \ {m})

TaskIds(tasks) == [i \in 1..Len(tasks) |-> tasks[i].TaskID]

\* Lines 193-218: the list task_summary of one field.
TaskSummary(by_year) ==
    LET years_with_tasks ==
            SortedYears({key.year : key \in {q \in DictKeys(by_year) : q.known}})
        Entry(key) ==
            LET tasks == DictGet(by_year, key)
            IN  [Year |-> key, TaskCount |-> Len(tasks), TaskIDs |-> TaskIds(tasks),
                 Crops |-> {tasks[i].Crop : i \in 1..Len(tasks)}]
        known == [i \in 1..Len(years_with_tasks) |-> Entry(YearKey(years_with_tasks[i]))]
    IN  IF DictHas(by_year, UnknownKey) THEN Append(known, Entry(UnknownKey))
        ELSE known

\* Lines 234-235.
TotalTasks(by_year) ==
    LET RECURSIVE Sum(_)
        Sum(i) == IF i = 0 THEN 0 ELSE Len(by_year[i].v) + Sum(i - 1)
    IN  Sum(Len(by_year))

\* Lines 224-239: the feature of one entry of fields_by_composite_id.
Feature(composite_id, field_data, tasks) ==
    LET by_year == DictGetOr(tasks, composite_id, <<>>)
    IN  [CompositeID |-> composite_id,
         FieldID |-> field_data.pfd_id,
         Folder |-> field_data.folder,
         FieldName |-> field_data.name,
         TaskYears |-> TaskSummary(by_year),
         TotalTasks |-> TotalTasks(by_year),
         Source |-> field_data.source,
         geometry |-> field_data.geom]

\* Lines 189-250: every folder was read; the features are built and written.
BuildFeatures ==
    /\ geoPc = "next"
    /\ srcIdx = Len(src_folders)
    /\ features' = [i \in 1..Len(fields_by_composite_id) |->
                      Feature(fields_by_composite_id[i].k,
                              fields_by_composite_id[i].v,
                              tasks_by_composite_id)]
    /\ geo_out' = [exists |-> TRUE, stamp |-> "written", features |-> features']
    /\ geoPc' = "built"
    /\ UNCHANGED <<src_folders, srcIdx, products, fields_by_composite_id,
                   tasks_by_composite_id, docs>>
    /\ UNCHANGED <<ringVars, resVars, decVars, expVars, tdVars, repVars, agVars>>

NextGeo == OpenSource \/ ParsePFD \/ ParseTSK \/ EndSource \/ BuildFeatures

SpecGeo == InitGeo /\ [][NextGeo]_vars

(***************************************************************************)
(* Claims about the merged index.                                          *)
(***************************************************************************)
\* The documents that were parsed (their folder held a taskdata file).
ParsedDocs == {i \in 1..Len(docs) : docs[i].path # NoneVal}

PfdsOf(i) == {docs[i].pfds[n] : n \in 1..Len(docs[i].pfds)}
TsksOf(i) == {docs[i].tsks[n] : n \in 1..Len(docs[i].tsks)}

FeatureSet == {features[n] : n \in 1..Len(features)}

\* C1: two sources that present the same local field id each yield their
\* own entry: the composite ids of distinct sources are distinct, and each
\* source's field is in the output under its own source.
C1_SourcesKeepOwnEntries ==
    geoPc = "built" =>
        \A i \in ParsedDocs, j \in ParsedDocs :
            (i # j /\ docs[i].folder # docs[j].folder) =>
                \A e1 \in PfdsOf(i), e2 \in PfdsOf(j) :
                    (/\ e1.A = e2.A
                     /\ HasGeometry(Polygons(e1.children))
                     /\ HasGeometry(Polygons(e2.children)))
                    => /\ CompositeId(docs[i].folder_name, e1.A)
                            # CompositeId(docs[j].folder_name, e2.A)
                       /\ \E f \in FeatureSet :
                             f.Source = docs[i].path /\ f.FieldID = e1.A
                       /\ \E f \in FeatureSet :
                             f.Source = docs[j].path /\ f.FieldID = e2.A

\* The rings of a geometry, whatever its type.
GeometryPolygons(geom) ==
    IF geom.type = "Polygon" THEN <<geom.coordinates>> ELSE geom.coordinates

\* C4: a field whose rings were all discarded is absent from the output:
\* every feature stems from a PFD element of its source with a surviving
\* ring and carries that element's geometry, and no emitted geometry has
\* an empty polygon list, an empty ring list or an empty ring.
C4_NoEmptyGeometry ==
    \A f \in FeatureSet :
        /\ \E i \in ParsedDocs : \E e \in PfdsOf(i) :
              /\ docs[i].path = f.Source
              /\ e.A = f.FieldID
              /\ Polygons(e.children) # <<>>
              /\ f.geometry = Geometry(Polygons(e.children))
        /\ LET polys == GeometryPolygons(f.geometry)
           IN  /\ polys # <<>>
               /\ \A n \in 1..Len(polys) :
                     /\ polys[n] # <<>>
                     /\ \A m \in 1..Len(polys[n]) : Len(polys[n][m]) >= 3

\* C4 witness: a parsed PFD element had children but no surviving ring,
\* and the output, which holds another field, holds no feature for it.
C4_DroppedFieldAbsent ==
    /\ geoPc = "built"
    /\ features # <<>>
    /\ \E i \in ParsedDocs : \E e \in PfdsOf(i) :
          /\ e.children # <<>>
          /\ Polygons(e.children) = <<>>
          /\ \A f \in FeatureSet : f.FieldID # e.A

\* The parsable start times of a task, over all of its TIM children.
ParsableStarts(tsk) ==
    {tsk.children[n].A : n \in {m \in 1..Len(tsk.children) :
        /\ tsk.children[m].tag = "TIM"
        /\ Truthy(tsk.children[m].A)
        /\ IsoParses(tsk.children[m].A)}}

\* C5: every task without a parsable start time is in the final output
\* under the unknown year entry of some feature.
C5_UnknownYearTasksKept ==
    geoPc = "built" =>
        \A i \in ParsedDocs : \A t \in TsksOf(i) :
            ParsableStarts(t) = {} =>
                \E f \in FeatureSet : \E n \in 1..Len(f.TaskYears) :
                    /\ f.TaskYears[n].Year = UnknownKey
                    /\ \E m \in 1..Len(f.TaskYears[n].TaskIDs) :
                          f.TaskYears[n].TaskIDs[m] = t.A
                    /\ f.TotalTasks >= f.TaskYears[n].TaskCount

\* The earliest year among the parsable starts of a task.
EarliestYear(tsk) ==
    CHOOSE y \in {IsoYear(a) : a \in ParsableStarts(tsk)} :
        \A a \in ParsableStarts(tsk) : y <= IsoYear(a)

\* C6: the year bucket of a task is the year of the earliest parsable
\* start among all of its TIM children, whatever their order.
C6_BucketIsEarliestStart ==
    \A i \in ParsedDocs : \A t \in TsksOf(i) :
        (Truthy(t.E) /\ ParsableStarts(t) # {}) =>
            LET by_year == DictGetOr(tasks_by_composite_id,
                                     CompositeId(docs[i].folder_name, t.E), <<>>)
                bucket == DictGetOr(by_year, YearKey(EarliestYear(t)), <<>>)
            IN  \E n \in 1..Len(bucket) :
                    bucket[n].TaskID = t.A /\ bucket[n].Source = docs[i].path

\* C13: a source folder without a taskdata.xml makes the load fail: the
\* extraction never finishes (returning 0) having skipped such a folder.
C13_MissingFileIsFatal ==
    geoPc = "built" => \A i \in 1..Len(docs) : docs[i].path # NoneVal

(***************************************************************************)
(* The geometry of a field, stated over its document.                      *)
(***************************************************************************)
IsValidPnt(pnt) == pnt.tag = "PNT" /\ FloatParses(pnt.C) /\ FloatParses(pnt.D)
IsLsgElem(e) == e.tag = "LSG"
IsPlnElem(e) == e.tag = "PLN"
NotEmptySeq(s) == s # <<>>

\* The points of an LSG element that parse, as [lon, lat], in document order.
ValidPoints(e) ==
    LET pnts == SelectSeq(e.children, IsValidPnt)
    IN  [n \in 1..Len(pnts) |-> <<FloatOf(pnts[n].D), FloatOf(pnts[n].C)>>]

\* The ring of an LSG element: <<>> when it is dropped, else its valid
\* points, closed.
SurvivingRing(e) ==
    IF Len(ValidPoints(e)) >= 3 THEN CloseRing(ValidPoints(e)) ELSE <<>>

\* The surviving rings of a PLN element, in document order.
SurvivingRings(e) ==
    LET lsgs == SelectSeq(e.children, IsLsgElem)
    IN  SelectSeq([n \in 1..Len(lsgs) |-> SurvivingRing(lsgs[n])], NotEmptySeq)

\* The surviving polygons of a PFD element, in document order.
SurvivingPolygons(e) ==
    LET plns == SelectSeq(e.children, IsPlnElem)
    IN  SelectSeq([n \in 1..Len(plns) |-> SurvivingRings(plns[n])], NotEmptySeq)

\* C21: a field with exactly one surviving polygon is emitted as a Polygon
\* whose coordinates are that polygon's rings, a field with more than one
\* as a MultiPolygon of all of them; polygons, rings and points are in
\* document order, dropped rings and skipped points removed.
C21_GeometryFollowsDocument ==
    \A f \in FeatureSet :
        \E i \in ParsedDocs : \E e \in PfdsOf(i) :
            /\ docs[i].path = f.Source
            /\ e.A = f.FieldID
            /\ LET polys == SurvivingPolygons(e)
               IN  /\ Len(polys) >= 1
                   /\ Len(polys) = 1 =>
                         /\ f.geometry.type = "Polygon"
                         /\ f.geometry.coordinates = polys[1]
                   /\ Len(polys) > 1 =>
                         /\ f.geometry.type = "MultiPolygon"
                         /\ f.geometry.coordinates = polys

\* C21 witness: the output holds a MultiPolygon of a field that lost a
\* polygon and a ring on the way, and a Polygon of another field.
C21_BothGeometryTypesEmitted ==
    /\ geoPc = "built"
    /\ \E f \in FeatureSet : f.geometry.type = "Polygon"
    /\ \E f \in FeatureSet :
          /\ f.geometry.type = "MultiPolygon"
          /\ \E i \in ParsedDocs : \E e \in PfdsOf(i) :
                /\ docs[i].path = f.Source /\ e.A = f.FieldID
                /\ Len(f.geometry.coordinates) < Len(SelectSeq(e.children, IsPlnElem))

(***************************************************************************)
(* Task conservation in the merged index.                                  *)
(***************************************************************************)
RECURSIVE SumTaskCount(_)
SumTaskCount(summary) ==
    IF summary = <<>> THEN 0
    ELSE summary[Len(summary)].TaskCount
         + SumTaskCount(SubSeq(summary, 1, Len(summary) - 1))

\* The places of the TSK elements of the i-th document that refer to the
\* given local field id.
TasksOfField(i, pfd_id) ==
    {n \in 1..Len(docs[i].tsks) : docs[i].tsks[n].E = pfd_id}

\* C28: for every feature, TotalTasks is the sum of TaskCount over its
\* TaskYears and the number of TSK elements of the feature's source that
\* refer to its local field id; each year occurs once, the known years
\* ascend and the unknown bucket comes last.
C28_TasksConserved ==
    geoPc = "built" =>
        \A f \in FeatureSet :
            /\ f.TotalTasks = SumTaskCount(f.TaskYears)
            /\ \A n \in 1..Len(f.TaskYears) :
                  /\ f.TaskYears[n].TaskCount = Len(f.TaskYears[n].TaskIDs)
                  /\ ~f.TaskYears[n].Year.known => n = Len(f.TaskYears)
                  /\ \A m \in 1..(n - 1) :
                        f.TaskYears[n].Year.known =>
                            f.TaskYears[m].Year.year < f.TaskYears[n].Year.year
            /\ \A i \in ParsedDocs :
                  docs[i].path = f.Source =>
                      f.TotalTasks = Cardinality(TasksOfField(i, f.FieldID))

(***************************************************************************)
(* What one source alone yields.                                           *)
(***************************************************************************)
\* fields_by_composite_id, had the i-th source been the only one.
RECURSIVE OwnFields(_, _)
OwnFields(i, n) ==
    IF n = 0 THEN <<>>
    ELSE StoreField(OwnFields(i, n - 1), docs[i], docs[i].pfds[n])

\* tasks_by_composite_id, had the i-th source been the only one.
RECURSIVE OwnTasks(_, _)
OwnTasks(i, n) ==
    IF n = 0 THEN <<>>
    ELSE StoreTask(OwnTasks(i, n - 1), docs[i],
                   ParseProducts(src_folders[i].pdts), docs[i].tsks[n])

\* C29: catalogs do not leak across sources: the feature of a source is
\* the feature that source yields when it is the only one in the list,
\* whatever the other sources declare.
C29_FeatureDependsOnOwnSource ==
    geoPc = "built" =>
        \A f \in FeatureSet : \A i \in ParsedDocs :
            docs[i].path = f.Source =>
                LET fields == OwnFields(i, Len(docs[i].pfds))
                IN  /\ DictHas(fields, f.CompositeID)
                    /\ f = Feature(f.CompositeID, DictGet(fields, f.CompositeID),
                                   OwnTasks(i, Len(docs[i].tsks)))

(***************************************************************************)
(* The output file and a document that is not well-formed.                 *)
(***************************************************************************)
\* The sources the loop of line 56 has taken whose document is not
\* well-formed.
BrokenTaken ==
    {i \in 1..srcIdx : /\ FindTaskdataFile(src_folders[i]) # NoneVal
                       /\ ~src_folders[i].parsable}

\* C30: a document that is not parsable is fatal and leaves the output
\* untouched: once such a source is taken the call has raised, and the
\* file at out_path is absent or as found; the file is written only when
\* every source was taken, after the last of them was parsed.
C30_ParseErrorLeavesOutput ==
    /\ BrokenTaken # {} => /\ geoPc = "raised"
                           /\ geo_out \in {AbsentFile, FoundFile}
    /\ geoPc = "raised" => BrokenTaken # {}
    /\ geo_out.stamp = "written" => /\ geoPc = "built"
                                    /\ srcIdx = Len(src_folders)
                                    /\ geo_out.features = features
    /\ geoPc # "built" => geo_out \in {AbsentFile, FoundFile}

\* C30 witness: the first source was parsed and gave a field, the second
\* was not parsable, and the file found at out_path is still as found.
C30_SecondSourceBroken ==
    /\ geoPc = "raised"
    /\ srcIdx = 2
    /\ fields_by_composite_id # <<>>
    /\ geo_out = FoundFile

(***************************************************************************)
(* DDI resolution.  A number is [kind, n]: an int n, or a float held in    *)
(* units of 10^-4 (n = 12345 is 1.2345); NoneCell is a cell never written. *)
(***************************************************************************)
IntVal(n) == [kind |-> "int", n |-> n]
FloatVal(n4) == [kind |-> "float", n |-> n4]
NoneCell == [kind |-> "none", n |-> 0]

RECURSIVE Pow10(_)
Pow10(d) == IF d = 0 THEN 1 ELSE 10 * Pow10(d - 1)

\* Division that truncates toward zero, as int() does.
TruncDiv(a, b) == IF a >= 0 THEN a \div b ELSE -((-a) \div b)

\* float() of the attribute strings of the model, in units of 10^-4.
NumParses(s) == s \in {"0", "1", "2", "5", "0.1", "0.01"}

Num4(s) ==
    CASE s = "0"    -> 0
      [] s = "1"    -> 10000
      [] s = "2"    -> 20000
      [] s = "5"    -> 50000
      [] s = "0.1"  -> 1000
      [] s = "0.01" -> 100

\* int() of the attribute strings of the model.
IntOf(s) ==
    CASE s = "0" -> 0
      [] s = "1" -> 1
      [] s = "2" -> 2
      [] s = "12345" -> 12345
      [] s = "-17" -> 0 - 17

(***************************************************************************)
(* The devices of the document.                                            *)
(***************************************************************************)
Dvp(a, b, c, d, e) == [A |-> a, B |-> b, C |-> c, D |-> d, E |-> e]
Dpd(b, e, f) == [B |-> b, E |-> e, F |-> f]

Dvc1 ==
    [A |-> "DVC1", B |-> "Combine",
     dets |-> <<"DET1">>,
     dvps |-> <<Dvp("DVP1", "0", "0.01", "2", "t"),
                Dvp("DVP2", "5", "2", "0", "kg/ha"),
                Dvp("DVP3", "0", "0.1", "0", NoneVal),
                Dvp("DVP4", NoneVal, "abc", "1", "x")>>,
     dpds |-> <<Dpd("0001", "Yield", "DVP1"),
                Dpd("0002", NoneVal, "DVP2"),
                Dpd("0003", "Speed", "DVP3"),
                Dpd("0004", "Count", NoneVal),
                Dpd("0005", "Temp", "DVP9"),
                Dpd("0006", "Load", "DVP4"),
                Dpd("0074", "Area", NoneVal),
                Dpd("005A", "Mass", NoneVal),
                Dpd("0106", "Moisture", "DVP1")>>]

Dvc2 ==
    [A |-> "DVC2", B |-> NoneVal,
     dets |-> <<"DET2">>,
     dvps |-> <<Dvp("DVP1", "0", "1", "0", "m")>>,
     dpds |-> <<Dpd("0001", "Width", "DVP1"),
                Dpd("013B", "Dry", NoneVal)>>]

Catalog == <<Dvc1, Dvc2>>

DdiCodes == {"0001", "0002", "0003", "0004", "0005", "0006", "0074", "005A",
             "0106", "013B", "0099"}

MoistureDdi == "0106"
DryMatterDdi == "013B"

(***************************************************************************)
(* parse_taskdata_to_dataframe: the device catalogs (lines 92-121).        *)
(***************************************************************************)
\* Lines 99-100, over all devices: det_to_dvc.
RECURSIVE DetToDvc(_)
DetToDvc(dvcs) ==
    IF dvcs = <<>> THEN <<>>
    ELSE LET dvc == dvcs[Len(dvcs)]
             RECURSIVE Put(_, _)
             Put(d, i) == IF i > Len(dvc.dets) THEN d
                          ELSE Put(DictPut(d, dvc.dets[i], dvc.A), i + 1)
         IN  Put(DetToDvc(SubSeq(dvcs, 1, Len(dvcs) - 1)), 1)

\* Lines 102-112: dvp_map of one device; a DVP whose scale or offset does
\* not parse is left out.
RECURSIVE DvpMap(_)
DvpMap(dvps) ==
    IF dvps = <<>> THEN <<>>
    ELSE LET before == DvpMap(SubSeq(dvps, 1, Len(dvps) - 1))
             dvp == dvps[Len(dvps)]
             c == IF dvp.C = NoneVal THEN "1" ELSE dvp.C
             b == IF dvp.B = NoneVal THEN "0" ELSE dvp.B
         IN  IF NumParses(c) /\ NumParses(b)
             THEN DictPut(before, dvp.A,
                          [scale |-> Num4(c), offset |-> Num4(b),
                           unit |-> IF dvp.E = NoneVal THEN "" ELSE dvp.E])
             ELSE before

\* Lines 114-119: dpd_map of one device; 'dvp' is the DVP entry, or None
\* (here: the empty sequence) when the reference is absent or unknown.
RECURSIVE DpdMap(_, _)
DpdMap(dpds, dvp_map) ==
    IF dpds = <<>> THEN <<>>
    ELSE LET before == DpdMap(SubSeq(dpds, 1, Len(dpds) - 1), dvp_map)
             dpd == dpds[Len(dpds)]
         IN  DictPut(before, dpd.B,
                     [name |-> IF dpd.E = NoneVal THEN "DDI_" \o dpd.B ELSE dpd.E,
                      dvp |-> IF DictHas(dvp_map, dpd.F)
                              THEN <<DictGet(dvp_map, dpd.F)>> ELSE <<>>])

\* Lines 95-121: dvc_info.
RECURSIVE DvcInfo(_)
DvcInfo(dvcs) ==
    IF dvcs = <<>> THEN <<>>
    ELSE LET dvc == dvcs[Len(dvcs)]
         IN  DictPut(DvcInfo(SubSeq(dvcs, 1, Len(dvcs) - 1)), dvc.A,
                     [name |-> IF dvc.B = NoneVal THEN "Unknown Machine" ELSE dvc.B,
                      dpds |-> DpdMap(dvc.dpds, DvpMap(dvc.dvps))])

(***************************************************************************)
(* parse_taskdata_to_dataframe: one DLV element (lines 155-190).           *)
(***************************************************************************)
Dlv(a, b, c) == [tag |-> "DLV", A |-> a, B |-> b, C |-> c]

DlvElems == {Dlv(a, b, c) : a \in DdiCodes, b \in {"12345", "-17"},
                            c \in {"DET1", "DET2", NoneVal}}

\* Line 172: the device a DLV is resolved under, NoneVal when there is none.
CurrentDvc(det_ref, fallback) == DictGetOr(DetToDvc(Catalog), det_ref, fallback)

NoDvpUnitEmpty(ddi) == ""

\* Lines 182-185: the unit of a DDI whose DPD has no DVP.
NoDvpUnit(ddi) ==
    CASE ddi = "0074" -> "m²"
      [] ddi = "005A" -> "kg"
      [] OTHER -> ""

\* Lines 159-185: prop_name, final_val and unit of a DLV element, under
\* the catalogs det_to_dvc and dvc_info of its document.
ResolveDlv(det_to_dvc, dvc_info, dlv, fallback) ==
    LET ddi == dlv.A
        raw_value == IF dlv.B = NoneVal THEN 0 ELSE IntOf(dlv.B)
        generic == [name |-> "DDI " \o ddi, val |-> IntVal(raw_value), unit |-> ""]
        current_dvc_id == DictGetOr(det_to_dvc, dlv.C, fallback)
    IN  IF ddi = MoistureDdi
        THEN [name |-> "Fugtighed", val |-> FloatVal(raw_value), unit |-> "%"]
        ELSE IF ddi = DryMatterDdi
        THEN [name |-> "Tørstofindhold", val |-> FloatVal(raw_value), unit |-> "%"]
        ELSE IF Truthy(current_dvc_id) /\ DictHas(dvc_info, current_dvc_id)
        THEN LET dvc_defs == DictGet(dvc_info, current_dvc_id).dpds
             IN  IF DictHas(dvc_defs, ddi)
                 THEN LET def_info == DictGet(dvc_defs, ddi)
                      IN  IF def_info.dvp # <<>>
                          THEN LET dvp == def_info.dvp[1]
                               IN  [name |-> def_info.name,
                                    val |-> FloatVal(raw_value * dvp.scale
                                                     + dvp.offset),
                                    unit |-> dvp.unit]
                          ELSE [name |-> def_info.name,
                                val |-> IntVal(raw_value),
                                unit |-> NoDvpUnit(ddi)]
                 ELSE generic
        ELSE generic

\* ... under the catalogs of the document of the model.
XmlResolve(dlv, fallback) ==
    ResolveDlv(DetToDvc(Catalog), DvcInfo(Catalog), dlv, fallback)

\* f"{final_val:,.2f}": a float is written with two decimals (the nearest
\* hundredth, a tie going to the even one); an int is written as it is.
FormatVal(val) ==
    IF val.kind # "float" THEN val
    ELSE LET q == val.n \div 100
             r == val.n % 100
         IN  FloatVal(IF r < 50 THEN q * 100
                      ELSE IF r > 50 THEN (q + 1) * 100
                      ELSE IF q % 2 = 0 THEN q * 100 ELSE (q + 1) * 100)

\* Lines 187-188: the entry, as the parts of the string it is.
EntryOf(res) == [name |-> res.name, val |-> FormatVal(res.val), unit |-> res.unit]

(***************************************************************************)
(* The DLV loop of one task (lines 154-190), one DLV element at a time.    *)
(***************************************************************************)
InitXml ==
    /\ resPc = "xml"
    /\ dvc_id_for_task \in {"DVC1", "DVC2", "DVC9", NoneVal}
    /\ logged_values = <<>>
    /\ xmlLog = <<>>
    /\ nr_dlvs = 0
    /\ read_point = 0
    /\ data_row = <<>>
    /\ unit_row = <<>>
    /\ warnings = 0
    /\ binLog = <<>>

\* One turn of `for dlv in tim.findall('DLV')`.
ResolveXmlDlv ==
    /\ resPc = "xml"
    /\ Len(xmlLog) < MaxDlv
    /\ \E dlv \in DlvElems :
          LET res == XmlResolve(dlv, dvc_id_for_task)
              entry == EntryOf(res)
          IN  /\ xmlLog' = Append(xmlLog, [dlv |-> dlv, res |-> res, entry |-> entry])
              /\ logged_values' =
                    IF \E i \in 1..Len(logged_values) : logged_values[i] = entry
                    THEN logged_values
                    ELSE Append(logged_values, entry)
    /\ UNCHANGED <<resPc, dvc_id_for_task, nr_dlvs, read_point, data_row, unit_row,
                   warnings, binLog>>
    /\ UNCHANGED <<ringVars, geoVars, decVars, expVars, tdVars, repVars, agVars>>

(***************************************************************************)
(* cython_read_dlvs (cython_agri_py.py lines 36-65).  Its arguments dlvs,  *)
(* dlv_idx, dpd_ids and task_dicts are built by its caller from the task's *)
(* log header and the device of the task.                                  *)
(***************************************************************************)
NrStatic == 3

\* dlvs: the DDI keys of the task's declared DLV table, in declared order.
DeclaredDlvs == <<"0001", "0002", "0003", "0004", "0005", "0006", "0106", "0099">>

\* dlv_idx[key]: the place of the key in the declared table, from 1.
DlvIdx(key) == CHOOSE i \in 1..Len(DeclaredDlvs) : DeclaredDlvs[i] = key

\* The devices of the catalog with the given id.
DvcsNamed(id) == {i \in 1..Len(Catalog) : Catalog[i].A = id}

\* dpd_ids: the DPD attributes of the task's device, by DDI key.
DpdIds(dvc_id) ==
    IF DvcsNamed(dvc_id) = {} THEN <<>>
    ELSE LET dvc == Catalog[CHOOSE i \in DvcsNamed(dvc_id) : TRUE]
         IN  [i \in 1..Len(dvc.dpds) |-> [k |-> dvc.dpds[i].B, v |-> dvc.dpds[i]]]

\* task_dicts['DVP']: the DVP attributes of the task's device, by DVP id.
TaskDvps(dvc_id) ==
    IF DvcsNamed(dvc_id) = {} THEN <<>>
    ELSE LET dvc == Catalog[CHOOSE i \in DvcsNamed(dvc_id) : TRUE]
         IN  [i \in 1..Len(dvc.dvps) |-> [k |-> dvc.dvps[i].A, v |-> dvc.dvps[i]]]

\* The trailer entries of the model: {DLVn: uint8, PDV: int32}.
TrailerEntries == {[nr |-> n, dlv |-> v] : n \in 0..Len(DeclaredDlvs),
                                           v \in {12345, 0 - 17}}

\* Lines 54-55 raise: an attribute is missing or does not parse.
DvpRaises(dvp) ==
    \/ dvp.D = NoneVal \/ dvp.D \notin {"0", "1", "2"}
    \/ dvp.B = NoneVal \/ ~NumParses(dvp.B)
    \/ dvp.C = NoneVal \/ ~NumParses(dvp.C)

ScaledValueDrifting(dlv, dvp) == FloatVal((dlv + Len(binLog)) * Num4(dvp.C))

\* Lines 54-55: int((dlv + B) * C * decimals + 0.5) / decimals, a float.
ScaledValue(dlv, dvp) ==
    LET decimals == Pow10(IntOf(dvp.D))
        b2 == Num4(dvp.B) \div 100
        c2 == Num4(dvp.C) \div 100
        x4 == (dlv * 100 + b2) * c2 * decimals
        t == TruncDiv(x4 + 5000, 10000)
    IN  FloatVal((t * 10000) \div decimals)

\* Lines 41-64 for one trailer entry: what it does to the rows, and how it
\* ends: "raised" (an exception leaves the function), "skipped" (continue),
\* "warned" (the assignment failed) or "assigned".
ReadEntry(entry, dpd_ids, dvps, units, row) ==
    LET same == [outcome |-> "raised", key |-> NoneVal, val |-> NoneCell,
                 unit_row |-> units, data_row |-> row]
    IN  IF entry.nr >= Len(DeclaredDlvs) THEN same
        ELSE
        LET dpd_key == DeclaredDlvs[entry.nr + 1]
            idx == DlvIdx(dpd_key)
        IN  IF ~DictHas(dpd_ids, dpd_key)
            THEN [same EXCEPT !.outcome = "skipped", !.key = dpd_key]
            ELSE
            LET dvp_key == DictGet(dpd_ids, dpd_key).F
                scaled == dvp_key # NoneVal /\ DictHas(dvps, dvp_key)
            IN  IF scaled /\ DvpRaises(DictGet(dvps, dvp_key))
                THEN [same EXCEPT !.key = dpd_key]
                ELSE IF scaled /\ idx >= Len(units)
                THEN [same EXCEPT !.key = dpd_key]
                ELSE
                LET dlv_val == IF scaled
                               THEN ScaledValue(entry.dlv, DictGet(dvps, dvp_key))
                               ELSE IntVal(entry.dlv)
                    units2 == IF /\ scaled
                                 /\ units[idx + 1] = NoneVal
                                 /\ DictGet(dvps, dvp_key).E # NoneVal
                              THEN [units EXCEPT ![idx + 1] = DictGet(dvps, dvp_key).E]
                              ELSE units
                    col == idx + NrStatic - 1
                IN  IF col < Len(row)
                    THEN [outcome |-> "assigned", key |-> dpd_key, val |-> dlv_val,
                          unit_row |-> units2,
                          data_row |-> [row EXCEPT ![col + 1] = dlv_val]]
                    ELSE [outcome |-> "warned", key |-> dpd_key, val |-> dlv_val,
                          unit_row |-> units2, data_row |-> row]

AdvanceUnlessSkipped(rp, outcome) == IF outcome = "skipped" THEN rp ELSE rp + 5

\* Line 41: read_point += 5, the first statement of every turn.
AdvanceReadPoint(rp, outcome) == rp + 5

\* The values of read_point the function is called with.
StartPoints == {0, 29}

InitBin ==
    /\ resPc = "bin"
    /\ dvc_id_for_task \in {"DVC1", "DVC2"}
    /\ logged_values = <<>>
    /\ xmlLog = <<>>
    /\ nr_dlvs \in 0..MaxDlv
    /\ read_point \in StartPoints
    /\ \E width \in {NrStatic + Len(DeclaredDlvs), NrStatic + Len(DeclaredDlvs) - 2} :
          /\ data_row = [i \in 1..width |-> NoneCell]
          /\ unit_row = [i \in 1..width |-> NoneVal]
    /\ warnings = 0
    /\ binLog = <<>>

\* One turn of the loop of line 39.
ReadDlv ==
    /\ resPc = "bin"
    /\ Len(binLog) < nr_dlvs
    /\ \E entry \in TrailerEntries :
          LET out == ReadEntry(entry, DpdIds(dvc_id_for_task),
                               TaskDvps(dvc_id_for_task), unit_row, data_row)
          IN  /\ read_point' = AdvanceReadPoint(read_point, out.outcome)
              /\ data_row' = out.data_row
              /\ unit_row' = out.unit_row
              /\ warnings' = IF out.outcome = "warned" THEN warnings + 1 ELSE warnings
              /\ resPc' = IF out.outcome = "raised" THEN "raised" ELSE "bin"
              /\ binLog' = Append(binLog, [nr |-> entry.nr, dlv |-> entry.dlv,
                                           outcome |-> out.outcome, key |-> out.key,
                                           val |-> out.val])
    /\ UNCHANGED <<dvc_id_for_task, logged_values, xmlLog, nr_dlvs>>
    /\ UNCHANGED <<ringVars, geoVars, decVars, expVars, tdVars, repVars, agVars>>

\* Line 65: all nr_dlvs entries were read.
ReturnDlvs ==
    /\ resPc = "bin"
    /\ Len(binLog) = nr_dlvs
    /\ resPc' = "returned"
    /\ UNCHANGED <<dvc_id_for_task, logged_values, xmlLog, nr_dlvs, read_point,
                   data_row, unit_row, warnings, binLog>>
    /\ UNCHANGED <<ringVars, geoVars, decVars, expVars, tdVars, repVars, agVars>>

InitRes ==
    /\ InitXml \/ InitBin
    /\ RingIdle /\ GeoIdle
    /\ DecIdle /\ ExpIdle /\ TdIdle /\ RepIdle /\ AgIdle

NextRes == ResolveXmlDlv \/ ReadDlv \/ ReturnDlvs

SpecRes == InitRes /\ [][NextRes]_vars

(***************************************************************************)
(* Claims about DDI resolution.                                            *)
(***************************************************************************)
OverrideDdis == {MoistureDdi, DryMatterDdi}

\* The DPD elements a device declares for a DDI, and the DVP elements it
\* declares under an id, as they stand in the document.
DeclaredDpds(dvc_id, ddi) ==
    {dpd \in UNION {{Catalog[i].dpds[n] : n \in 1..Len(Catalog[i].dpds)} :
                        i \in DvcsNamed(dvc_id)} : dpd.B = ddi}

DeclaredDvps(dvc_id, dvp_id) ==
    {dvp \in UNION {{Catalog[i].dvps[n] : n \in 1..Len(Catalog[i].dvps)} :
                        i \in DvcsNamed(dvc_id)} : dvp.A = dvp_id}

\* The device an XML DLV element of the log is resolved under.
XmlDvc(e) == CurrentDvc(e.dlv.C, dvc_id_for_task)

XmlRaw(e) == IntOf(e.dlv.B)

\* The unit cell of the column of a trailer entry's key.
BinUnit(b) == unit_row[DlvIdx(b.key) + 1]

\* C7: a DLV whose DDI is 0106 or 013B is resolved with the scale 0.0001,
\* the unit '%' and the fixed name, whatever the device declares for it, on
\* the XML path and on the binary trailer path alike.
C7_OverrideOnEveryPath ==
    /\ \A i \in 1..Len(xmlLog) :
          xmlLog[i].dlv.A \in OverrideDdis =>
              /\ xmlLog[i].res.val = FloatVal(XmlRaw(xmlLog[i]))
              /\ xmlLog[i].res.unit = "%"
              /\ xmlLog[i].dlv.A = MoistureDdi => xmlLog[i].res.name = "Fugtighed"
    /\ \A j \in 1..Len(binLog) :
          binLog[j].key \in OverrideDdis =>
              /\ binLog[j].val = FloatVal(binLog[j].dlv)
              /\ BinUnit(binLog[j]) = "%"

\* val4 is (raw + offset) * scale rounded to the DVP's decimal places (a tie
\* may go either way).
IsRounded(val, raw, dvp) ==
    LET step == 10000 \div Pow10(IntOf(dvp.D))
        x4 == (raw * 100 + Num4(dvp.B) \div 100) * (Num4(dvp.C) \div 100)
        d == val.n - x4
    IN  /\ val.kind \in {"int", "float"}
        /\ val.n % step = 0
        /\ 2 * d <= step
        /\ 2 * (0 - d) <= step

\* C8: a DDI found under the resolved device whose DPD references a declared
\* DVP resolves to round((raw + offset) * scale, decimals) with the DVP's
\* unit, for positive and negative raw values, on both paths.
C8_ScaledByDvpOnBothPaths ==
    /\ \A i \in 1..Len(xmlLog) :
          xmlLog[i].dlv.A \notin OverrideDdis =>
              \A dpd \in DeclaredDpds(XmlDvc(xmlLog[i]), xmlLog[i].dlv.A) :
              \A dvp \in DeclaredDvps(XmlDvc(xmlLog[i]), dpd.F) :
                  ~DvpRaises(dvp) =>
                      /\ IsRounded(xmlLog[i].res.val, XmlRaw(xmlLog[i]), dvp)
                      /\ dvp.E # NoneVal => xmlLog[i].res.unit = dvp.E
    /\ \A j \in 1..Len(binLog) :
          (binLog[j].key # NoneVal /\ binLog[j].key \notin OverrideDdis) =>
              \A dpd \in DeclaredDpds(dvc_id_for_task, binLog[j].key) :
              \A dvp \in DeclaredDvps(dvc_id_for_task, dpd.F) :
                  ~DvpRaises(dvp) =>
                      /\ IsRounded(binLog[j].val, binLog[j].dlv, dvp)
                      /\ dvp.E # NoneVal => BinUnit(binLog[j]) = dvp.E

\* C9: a DDI that is not declared under the resolved device (or that has no
\* resolved device) gets the name 'DDI <code>', the raw integer and an empty
\* unit, and its value is delivered to the output, on both paths.
C9_UnresolvedDelivered ==
    /\ \A i \in 1..Len(xmlLog) :
          (/\ xmlLog[i].dlv.A \notin OverrideDdis
           /\ DeclaredDpds(XmlDvc(xmlLog[i]), xmlLog[i].dlv.A) = {}) =>
              /\ xmlLog[i].res = [name |-> "DDI " \o xmlLog[i].dlv.A,
                                  val |-> IntVal(XmlRaw(xmlLog[i])), unit |-> ""]
              /\ \E n \in 1..Len(logged_values) : logged_values[n] = xmlLog[i].entry
    /\ \A j \in 1..Len(binLog) :
          (/\ binLog[j].key # NoneVal
           /\ binLog[j].key \notin OverrideDdis
           /\ DeclaredDpds(dvc_id_for_task, binLog[j].key) = {}) =>
              /\ binLog[j].outcome = "assigned"
              /\ binLog[j].val = IntVal(binLog[j].dlv)

\* The DPD references no DVP, or a DVP the device does not declare.
NoDeclaredDvp(dvc_id, dpd) == dpd.F = NoneVal \/ DeclaredDvps(dvc_id, dpd.F) = {}

\* C10 as stated: a DDI found under the resolved device whose DPD has no
\* declared DVP passes the raw integer through with an empty unit, for every
\* DDI other than the two overrides.
C10_NoDvpRawWithEmptyUnit ==
    /\ \A i \in 1..Len(xmlLog) :
          xmlLog[i].dlv.A \notin OverrideDdis =>
              \A dpd \in DeclaredDpds(XmlDvc(xmlLog[i]), xmlLog[i].dlv.A) :
                  NoDeclaredDvp(XmlDvc(xmlLog[i]), dpd) =>
                      /\ xmlLog[i].res.val = IntVal(XmlRaw(xmlLog[i]))
                      /\ xmlLog[i].res.unit = ""
    /\ \A j \in 1..Len(binLog) :
          (binLog[j].key # NoneVal /\ binLog[j].key \notin OverrideDdis) =>
              \A dpd \in DeclaredDpds(dvc_id_for_task, binLog[j].key) :
                  NoDeclaredDvp(dvc_id_for_task, dpd) =>
                      /\ binLog[j].val = IntVal(binLog[j].dlv)
                      /\ BinUnit(binLog[j]) = NoneVal

\* C10, amended: the raw integer passes through unchanged on both paths; the
\* unit is empty, except that the XML path gives DDI 0074 the unit 'm²' and
\* DDI 005A the unit 'kg'.
C10_NoDvpRawWithFallbackUnit ==
    /\ \A i \in 1..Len(xmlLog) :
          xmlLog[i].dlv.A \notin OverrideDdis =>
              \A dpd \in DeclaredDpds(XmlDvc(xmlLog[i]), xmlLog[i].dlv.A) :
                  NoDeclaredDvp(XmlDvc(xmlLog[i]), dpd) =>
                      /\ xmlLog[i].res.val = IntVal(XmlRaw(xmlLog[i]))
                      /\ xmlLog[i].entry.val = IntVal(XmlRaw(xmlLog[i]))
                      /\ xmlLog[i].res.unit =
                            IF xmlLog[i].dlv.A = "0074" THEN "m²"
                            ELSE IF xmlLog[i].dlv.A = "005A" THEN "kg"
                            ELSE ""
    /\ \A j \in 1..Len(binLog) :
          (binLog[j].key # NoneVal /\ binLog[j].key \notin OverrideDdis) =>
              \A dpd \in DeclaredDpds(dvc_id_for_task, binLog[j].key) :
                  NoDeclaredDvp(dvc_id_for_task, dpd) =>
                      /\ binLog[j].val = IntVal(binLog[j].dlv)
                      /\ BinUnit(binLog[j]) = NoneVal

\* C10: an XML DLV of DDI 0074, declared without a DVP under its device, was
\* resolved to its raw integer with the unit 'm²'.
C10_AreaResolvedWithFallbackUnit ==
    \E i \in 1..Len(xmlLog) :
        /\ xmlLog[i].dlv.A = "0074"
        /\ \E dpd \in DeclaredDpds(XmlDvc(xmlLog[i]), "0074") :
              NoDeclaredDvp(XmlDvc(xmlLog[i]), dpd)
        /\ xmlLog[i].res.val = IntVal(XmlRaw(xmlLog[i]))
        /\ xmlLog[i].res.unit = "m²"

\* C11: a corrupt trailer entry (index outside the declared table, key
\* without a column, column outside the row, inconsistent DVP) is skipped
\* with a warning: no exception leaves cython_read_dlvs, and every entry
\* that was not written to the row has its warning.
C11_CorruptEntrySkippedWithWarning ==
    /\ resPc # "raised"
    /\ \A j \in 1..Len(binLog) : binLog[j].outcome # "raised"
    /\ warnings = Cardinality({j \in 1..Len(binLog) : binLog[j].outcome # "assigned"})

\* The unit a key's column gets from the catalog alone: the unit of the DVP
\* its DPD references, NoneVal when there is none.
UnitOfKey(dvc_id, key) ==
    LET es == {dvp.E : dvp \in UNION {DeclaredDvps(dvc_id, dpd.F) :
                                         dpd \in DeclaredDpds(dvc_id, key)}}
    IN  IF es = {} THEN NoneVal ELSE CHOOSE e \in es : TRUE

\* C14: resolution is history-independent: two XML DLV elements with the
\* same device-element ref, DDI and raw value get the same name, unit and
\* value, two trailer entries with the same index and raw value get the same
\* outcome and value, and the unit recorded for a column is the one its key
\* has in the catalog, whatever was resolved before.
C14_ResolveIsHistoryIndependent ==
    /\ \A i, j \in 1..Len(xmlLog) :
          xmlLog[i].dlv = xmlLog[j].dlv =>
              xmlLog[i].res = xmlLog[j].res /\ xmlLog[i].entry = xmlLog[j].entry
    /\ \A i, j \in 1..Len(binLog) :
          (binLog[i].nr = binLog[j].nr /\ binLog[i].dlv = binLog[j].dlv) =>
              binLog[i].outcome = binLog[j].outcome /\ binLog[i].val = binLog[j].val
    /\ \A j \in 1..Len(binLog) :
          binLog[j].outcome \in {"assigned", "warned"} =>
              BinUnit(binLog[j]) = UnitOfKey(dvc_id_for_task, binLog[j].key)

\* C14: the same scaled trailer entry was resolved twice, first on an empty
\* row and then after itself, and its column has the unit of its DVP.
C14_SameEntryResolvedTwice ==
    /\ Len(binLog) = 2
    /\ binLog[1].nr = binLog[2].nr
    /\ binLog[1].dlv = binLog[2].dlv
    /\ binLog[2].outcome = "assigned"
    /\ binLog[2].val.kind = "float"
    /\ BinUnit(binLog[2]) # NoneVal

\* The destination column of a key, from 1.
DestColumn(key) == DlvIdx(key) + NrStatic

\* C15: for each trailer entry (n, v) whose index is in the declared table
\* and whose column is in the row, the key is dlvs[n], the resolved value
\* is written to the destination column of that key, and every other
\* column is left unchanged.
C15_EntryWrittenToItsColumn ==
    [][Len(binLog') = Len(binLog) + 1 =>
          LET b == binLog'[Len(binLog')]
          IN  (/\ b.nr < Len(DeclaredDlvs)
               /\ DestColumn(DeclaredDlvs[b.nr + 1]) <= Len(data_row)
               /\ \A dpd \in DeclaredDpds(dvc_id_for_task, DeclaredDlvs[b.nr + 1]) :
                  \A dvp \in DeclaredDvps(dvc_id_for_task, dpd.F) : ~DvpRaises(dvp))
              => /\ b.key = DeclaredDlvs[b.nr + 1]
                 /\ b.val # NoneCell
                 /\ data_row' = [data_row EXCEPT ![DestColumn(b.key)] = b.val]]_vars

\* C27: cython_read_dlvs moves read_point by exactly 5 bytes per trailer
\* entry, skipped and failed entries included: when it returns, it has read
\* nr_dlvs entries and read_point is the start point plus 5 * nr_dlvs.
C27_FiveBytesPerEntry ==
    resPc \in {"bin", "returned"} =>
        /\ \E start \in StartPoints : read_point = start + 5 * Len(binLog)
        /\ resPc = "returned" =>
              /\ Len(binLog) = nr_dlvs
              /\ \E start \in StartPoints : read_point = start + 5 * nr_dlvs

\* C27 witness: the function returned after an entry it skipped and an
\* entry whose assignment failed, 10 bytes further on.
C27_SkippedAndWarnedCounted ==
    /\ resPc = "returned"
    /\ nr_dlvs = 2
    /\ read_point = 39
    /\ \E i \in 1..2 : binLog[i].outcome = "skipped"
    /\ \E i \in 1..2 : binLog[i].outcome = "warned"

(***************************************************************************)
(* The binary log decoder.  A record of the file is the tuple of its fixed *)
(* fields (np_data[0]) and its trailer entries.  A cell of a row is        *)
(* [kind, a, b]: a formatted time, a coordinate, a raw field or None.      *)
(***************************************************************************)
MaxRec == 2         \* whole records in one file

Cell(kind, a, b) == [kind |-> kind, a |-> a, b |-> b]
EmptyCell == Cell("none", 0, 0)

MsPerDay == 86400000

TimeCellRounded(millis, days) ==
    Cell("time", days + (millis + 500) \div MsPerDay,
         (((millis + 500) % MsPerDay) \div 1000))

\* (start_date + timedelta(days, milliseconds)).strftime('%Y-%m-%dT%H:%M:%S'):
\* the text names a date, held as its distance in days from start_date, and
\* a whole second of that day; strftime leaves the microseconds out.
TimeCell(millis, days) ==
    Cell("time", days + millis \div MsPerDay, (millis % MsPerDay) \div 1000)

\* np_data[0][k] * pow(10, -7)
DegCell(e7) == Cell("deg", e7, 0)

RawCell(v) == Cell("raw", v, 0)

\* The attribute keys a PTN element may declare, in document order.
PtnKeys == {<<"A", "B">>,
            <<"A", "B", "C">>,
            <<"A", "B", "D", "E">>,
            <<"A", "B", "H">>,
            <<"A", "B", "I", "G">>,
            <<"A", "B", "H", "I">>,
            <<"A", "B", "I", "C", "H", "F">>,
            <<"A", "B", "C", "D", "E", "F", "G", "H", "I">>}

IsStaticFlag(key) == key \in {"C", "D", "E", "F", "G"}

\* The keys of lines 22-23, in the order the loop meets them.
StaticFlags(ptn) == SelectSeq(ptn, IsStaticFlag)

HasTimePairEither(ptn) ==
    (\E i \in 1..Len(ptn) : ptn[i] = "H") \/ (\E i \in 1..Len(ptn) : ptn[i] = "I")

\* Line 26: 'H' in keys and 'I' in keys.
HasTimePair(ptn) ==
    (\E i \in 1..Len(ptn) : ptn[i] = "H") /\ (\E i \in 1..Len(ptn) : ptn[i] = "I")

\* The number of fields of the record dtype `dt`: the four fixed fields, one
\* per static flag, the time/day pair when both H and I are declared, and
\* the trailer count.
DtFields(ptn) ==
    4 + Len(StaticFlags(ptn))
      + (IF (\E i \in 1..Len(ptn) : ptn[i] = "H") /\ (\E i \in 1..Len(ptn) : ptn[i] = "I")
         THEN 2 ELSE 0)
      + 1

\* dt.itemsize: every field is four bytes wide, the trailer count one.
DtItemSize(ptn) == 4 * (DtFields(ptn) - 1) + 1

\* The time and position a record can hold: milliseconds since midnight,
\* days since the start date, and two signed coordinates in 10^-7 degrees.
Sample(millis, days, lat, lon) ==
    [millis |-> millis, days |-> days, lat |-> lat, lon |-> lon]

TimeSamples ==
    {Sample(0, 1, 100, 200),
     Sample(1999, 16000, 550000000, 120000000),
     Sample(86399999, 0, 0 - 550000001, 0 - 1),
     Sample(86401500, 16000, 0 - 1799999999, 1800000000)}

\* The fixed fields of the r-th record of a file: the time and position of
\* the sample, the static fields, the second time/day pair when declared,
\* and the trailer count n last.
RecordFields(ptn, r, n, s) ==
    LET pairAt == 5 + Len(StaticFlags(ptn))
    IN  [k \in 1..DtFields(ptn) |->
            IF k = DtFields(ptn) THEN n
            ELSE IF k = 1 THEN s.millis
            ELSE IF k = 2 THEN s.days + r
            ELSE IF k = 3 THEN s.lat
            ELSE IF k = 4 THEN s.lon
            ELSE IF k = pairAt /\ DtFields(ptn) > pairAt + 1 THEN s.millis + 1000 * r
            ELSE IF k = pairAt + 1 /\ DtFields(ptn) > pairAt + 1 THEN s.days + 10 * r
            ELSE 100 * r + k]

RowWidth == 12

\* read_static_binary_data (lines 13-33) on the fields np.frombuffer got
\* from the buffer; `raised` when a field index is outside the tuple.
ReadStaticBinaryData(row, ptn, fields) ==
    LET statics == StaticFlags(ptn)
        nr_d1 == 3 + Len(statics)
        row1 == [i \in 1..Len(row) |->
                    IF i = 1 THEN TimeCell(fields[1], fields[2])
                    ELSE IF i = 2 THEN DegCell(fields[3])
                    ELSE IF i = 3 THEN DegCell(fields[4])
                    ELSE IF i <= nr_d1 THEN RawCell(fields[i + 1])
                    ELSE row[i]]
        pair == HasTimePair(ptn)
        nr_d2 == IF pair THEN nr_d1 + 2 ELSE nr_d1
    IN  IF nr_d2 + 2 > Len(fields)
        THEN [raised |-> TRUE, data_row |-> row, nr_dlvs |-> 0, nr_d |-> 0]
        ELSE [raised |-> FALSE,
              data_row |-> IF pair
                           THEN [row1 EXCEPT ![nr_d1 + 1] =
                                    TimeCell(fields[nr_d1 + 2], fields[nr_d1 + 3])]
                           ELSE row1,
              nr_dlvs |-> fields[nr_d2 + 2],
              nr_d |-> nr_d2]

(***************************************************************************)
(* The decode loop over one file: read the fixed header of the next record *)
(* with read_static_binary_data, then its trailer with cython_read_dlvs,   *)
(* until less than one fixed header is left.                               *)
(***************************************************************************)
Record(ptn, r, n, s) ==
    [fields |-> RecordFields(ptn, r, n, s),
     entries |-> [k \in 1..n |-> [nr |-> k - 1, dlv |-> 10 * r + k]]]

\* The files of the model: up to MaxRec whole records, then nothing, one
\* byte, or a fixed header that lacks its last byte.
Files(ptn) ==
    UNION {{[recs |-> [r \in 1..len |-> Record(ptn, r, ns[r], s)], tail |-> t] :
                ns \in [1..len -> 0..MaxDlv], s \in TimeSamples,
                t \in {0, 1, DtItemSize(ptn) - 1}} : len \in 0..MaxRec}

\* len(binary_data)
RECURSIVE RecordBytes(_, _)
RecordBytes(recs, ptn) ==
    IF recs = <<>> THEN 0
    ELSE DtItemSize(ptn) + 5 * Len(recs[Len(recs)].entries)
         + RecordBytes(SubSeq(recs, 1, Len(recs) - 1), ptn)

FileLen(file, ptn) == RecordBytes(file.recs, ptn) + file.tail

BytesLeft == FileLen(binary_data, tlg_ptn) - decPos

HasAnyBytes(left, ptn) == left > 0

\* The loop goes on while one whole fixed header is left to read.
HasFullHeader(left, ptn) == left >= DtItemSize(ptn)

BlankRow == [i \in 1..RowWidth |-> EmptyCell]

InitDec ==
    /\ tlg_ptn \in PtnKeys
    /\ binary_data \in Files(tlg_ptn)
    /\ decPos = 0
    /\ decRow = NoRow
    /\ decRows = <<>>
    /\ decPc = "header"
    /\ RingIdle /\ GeoIdle /\ ResIdle
    /\ ExpIdle /\ TdIdle /\ RepIdle /\ AgIdle

\* read_static_binary_data at read_point; np.frombuffer raises ValueError
\* when the buffer holds less than one item after the offset.
DecodeHeader ==
    /\ decPc = "header"
    /\ HasFullHeader(BytesLeft, tlg_ptn)
    /\ IF BytesLeft < DtItemSize(tlg_ptn)
       THEN /\ decPc' = "raised"
            /\ UNCHANGED <<decPos, decRow>>
       ELSE LET rec == binary_data.recs[Len(decRows) + 1]
                out == ReadStaticBinaryData(BlankRow, tlg_ptn, rec.fields)
            IN  /\ decRow' = [data_row |-> out.data_row, nr_dlvs |-> out.nr_dlvs,
                              nr_d |-> out.nr_d]
                /\ decPos' = decPos + DtItemSize(tlg_ptn)
                /\ decPc' = IF out.raised THEN "raised" ELSE "trailer"
    /\ UNCHANGED <<tlg_ptn, binary_data, decRows>>
    /\ UNCHANGED <<ringVars, geoVars, resVars, expVars, tdVars, repVars, agVars>>

\* cython_read_dlvs over the nr_dlvs entries of the record: read_point
\* moves by 5 per entry (line 41), and the record is complete.
DecodeTrailer ==
    /\ decPc = "trailer"
    /\ decPos' = decPos + 5 * decRow.nr_dlvs
    /\ decRows' = Append(decRows,
                         [row |-> decRow,
                          entries |-> SubSeq(binary_data.recs[Len(decRows) + 1].entries,
                                             1, decRow.nr_dlvs)])
    /\ decPc' = "header"
    /\ UNCHANGED <<tlg_ptn, binary_data, decRow>>
    /\ UNCHANGED <<ringVars, geoVars, resVars, expVars, tdVars, repVars, agVars>>

\* Less than one fixed header is left: the end of the stream.
EndOfStream ==
    /\ decPc = "header"
    /\ ~HasFullHeader(BytesLeft, tlg_ptn)
    /\ decPc' = "eof"
    /\ UNCHANGED <<tlg_ptn, binary_data, decPos, decRow, decRows>>
    /\ UNCHANGED <<ringVars, geoVars, resVars, expVars, tdVars, repVars, agVars>>

NextDec == DecodeHeader \/ DecodeTrailer \/ EndOfStream

SpecDec == InitDec /\ [][NextDec]_vars

(***************************************************************************)
(* Claims about the binary log decoder.                                    *)
(***************************************************************************)
\* The record the r-th whole record of the file decodes to.
WholeRecord(r) ==
    LET rec == binary_data.recs[r]
        out == ReadStaticBinaryData(BlankRow, tlg_ptn, rec.fields)
    IN  [row |-> [data_row |-> out.data_row, nr_dlvs |-> out.nr_dlvs,
                  nr_d |-> out.nr_d],
         entries |-> rec.entries]

\* C12: a file whose last record is cut short inside its fixed header
\* decodes to the records of the whole file without that partial record,
\* and no error is raised.
C12_TruncatedHeaderIsEndOfStream ==
    /\ decPc # "raised"
    /\ decPc = "eof" =>
          /\ Len(decRows) = Len(binary_data.recs)
          /\ \A r \in 1..Len(decRows) : decRows[r] = WholeRecord(r)

\* C12: a file of at least one whole record, truncated by one byte inside
\* the next header, was decoded to its end.
C12_TruncatedFileDecoded ==
    /\ decPc = "eof"
    /\ Len(binary_data.recs) >= 1
    /\ binary_data.tail = DtItemSize(tlg_ptn) - 1
    /\ Len(decRows) = Len(binary_data.recs)

\* The rows read_static_binary_data has returned, each with the fields it
\* was read from.
StaticReads ==
    {[row |-> decRows[r].row, fields |-> binary_data.recs[r].fields] :
        r \in 1..Len(decRows)}
        \cup (IF decPc = "trailer"
              THEN {[row |-> decRow,
                     fields |-> binary_data.recs[Len(decRows) + 1].fields]}
              ELSE {})

DeclaredFlags == {tlg_ptn[i] : i \in 1..Len(tlg_ptn)}

\* C16: the static width is 3 + |S \cap {C..G}| + (2 if H and I are both
\* in S, else 0); one static column is read per declared flag of C..G, one
\* second timestamp column only when H and I are both declared, no other
\* column is written, and the trailer count is the field after the last
\* static field.
C16_StaticWidthFollowsFlags ==
    /\ decPc # "raised"
    /\ \A rd \in StaticReads :
          LET n == Cardinality(DeclaredFlags \cap {"C", "D", "E", "F", "G"})
              pair == "H" \in DeclaredFlags /\ "I" \in DeclaredFlags
              row == rd.row.data_row
              f == rd.fields
          IN  /\ rd.row.nr_d = 3 + n + (IF pair THEN 2 ELSE 0)
              /\ row[1] = TimeCell(f[1], f[2])
              /\ row[2] = DegCell(f[3]) /\ row[3] = DegCell(f[4])
              /\ \A k \in 1..n : row[3 + k] = RawCell(f[4 + k])
              /\ \A i \in (4 + n)..RowWidth :
                    row[i] = IF pair /\ i = 4 + n
                             THEN TimeCell(f[n + 5], f[n + 6])
                             ELSE EmptyCell
              /\ rd.row.nr_dlvs = f[rd.row.nr_d + 2]
              /\ rd.row.nr_d + 2 = Len(f)

\* C16: a header was read under flags that hold only one of H and I, with
\* static flags declared, and it added no timestamp column.
C16_LoneFlagAddsNothing ==
    /\ decPc = "trailer"
    /\ "I" \in DeclaredFlags /\ "H" \notin DeclaredFlags
    /\ "G" \in DeclaredFlags
    /\ decRow.nr_d = 4
    /\ decRow.data_row[5] = EmptyCell

\* The text of a timestamp, from the record's fields: the date whose
\* distance from the start date is `day`, and the second `sec` of that day.
IsTimeOf(cell, millis, days) ==
    /\ cell.kind = "time"
    /\ cell.b \in 0..86399
    /\ cell.a >= days
    /\ LET rest == millis - (cell.a - days) * MsPerDay - cell.b * 1000
       IN  rest \in 0..999

\* C25: the timestamp of a record is the start date plus the days plus the
\* milliseconds of its fields, written to the whole second with the rest
\* cut off; the coordinates are the raw integers in units of 10^-7; the
\* second timestamp, when declared, follows the same rule from its pair.
C25_TimestampCutToSeconds ==
    \A rd \in StaticReads :
        LET row == rd.row.data_row
            f == rd.fields
            n == Len(StaticFlags(tlg_ptn))
        IN  /\ IsTimeOf(row[1], f[1], f[2])
            /\ row[2] = [kind |-> "deg", a |-> f[3], b |-> 0]
            /\ row[3] = [kind |-> "deg", a |-> f[4], b |-> 0]
            /\ HasTimePair(tlg_ptn) => IsTimeOf(row[4 + n], f[5 + n], f[6 + n])

\* C25 witness: a record 1.999 s after midnight was written with second 1
\* of its day, and its second timestamp, 2.999 s after midnight, with
\* second 2.
C25_SubSecondCutOff ==
    /\ decPc = "eof"
    /\ Len(decRows) = 2
    /\ HasTimePair(tlg_ptn)
    /\ binary_data.recs[1].fields[1] = 1999
    /\ decRows[1].row.data_row[1].b = 1
    /\ decRows[1].row.data_row[1].a = binary_data.recs[1].fields[2]
    /\ decRows[1].row.data_row[4 + Len(StaticFlags(tlg_ptn))].b = 2

(***************************************************************************)
(* export_taskdata (export.py lines 21-81).  A DataFrame is its columns,   *)
(* its rows and its attrs; `tlg` is the TLG id of the task it was decoded  *)
(* from.  A CSV file is the sequence of its lines.                         *)
(***************************************************************************)
MaxExport == 2      \* export_taskdata calls into one output directory

\* Path(path).name
PathName(path) ==
    CASE path = "data/TASKDATA"   -> "TASKDATA"
      [] path = "data/TASKDATA 2" -> "TASKDATA 2"
      [] path = "/fake/path"      -> "path"

\* Path(tlg_file).stem
Stem(tlg_file) ==
    CASE tlg_file = "data/TASKDATA/TLG00001.bin" -> "TLG00001"
      [] tlg_file = "TLG00002"                   -> "TLG00002"
      [] OTHER                                   -> tlg_file

\* f'task_{i}', i from 0.
TaskDefaultName(i) ==
    CASE i = 0 -> "task_0"
      [] i = 1 -> "task_1"
      [] OTHER -> "task_2"

\* task_name.split('_')[0] if '_' in task_name else task_name
SplitFirst(task_name) ==
    CASE task_name = "task_0"           -> "task"
      [] task_name = "task_1"           -> "task"
      [] task_name = "task_2"           -> "task"
      [] task_name = "TLG00001_Harvest" -> "TLG00001"
      [] OTHER                          -> task_name

\* s.replace(' ', '_').replace('/', '-')
SafeName(str) ==
    CASE str = "TASKDATA 2" -> "TASKDATA_2"
      [] str = "Test Task"  -> "Test_Task"
      [] OTHER              -> str

\* A DataFrame of pa.tasks; an attr that was never set is NoneVal.
Df(id, columns, nrows, tlg, tlg_file, task_name) ==
    [frame |-> TRUE, id |-> id, columns |-> columns,
     rows |-> [r \in 1..nrows |-> [c \in 1..Len(columns) |-> <<id, r, c>>]],
     tlg |-> tlg,
     attrs |-> [tlg_file |-> tlg_file, task_name |-> task_name]]

\* An element of pa.tasks that is not a DataFrame.
NotAFrame ==
    [frame |-> FALSE, id |-> 0, columns |-> <<>>, rows |-> <<>>, tlg |-> NoneVal,
     attrs |-> [tlg_file |-> NoneVal, task_name |-> NoneVal]]

DfTest1 == Df(1, <<"a", "b">>, 2, "TLG00001", NoneVal, "Test Task")
DfTest2 == Df(2, <<"a", "b">>, 1, "TLG00001", NoneVal, "Test Task")
DfLog1 == Df(3, <<"time_stamp", "a">>, 2, "TLG00001", "data/TASKDATA/TLG00001.bin",
             "TLG00001_Harvest")
DfLog2 == Df(4, <<"time_stamp", "b", "a">>, 1, "TLG00002", "TLG00002", NoneVal)
DfNamed == Df(5, <<"a", "b">>, 1, "TLG00001", "", "TLG00001_Harvest")
DfBare == Df(6, <<"a", "b">>, 0, "TLG00002", NoneVal, NoneVal)
DfTagged == Df(7, <<"CompositeTLGID", "a">>, 1, "TLG00001", "TLG00002", NoneVal)

\* pa.tasks, as gathered from one folder.
TaskLists ==
    {<<DfTest1>>, <<DfTest2>>, <<DfLog1>>, <<DfLog2>>, <<DfNamed>>, <<DfBare>>,
     <<NotAFrame, DfBare>>, <<DfLog1, DfLog2>>, <<DfLog1, DfNamed>>, <<DfTagged>>,
     <<DfLog2, DfTagged, DfLog1>>}

ExportPaths == {"data/TASKDATA", "data/TASKDATA 2", "/fake/path"}

\* Lines 46-57: the TLG id of the i-th task (i from 0).
TlgId(df, i) ==
    LET tlg_file == IF df.attrs.tlg_file = NoneVal THEN "" ELSE df.attrs.tlg_file
        task_name == IF df.attrs.task_name = NoneVal THEN TaskDefaultName(i)
                     ELSE df.attrs.task_name
    IN  IF tlg_file = "" THEN SplitFirst(task_name) ELSE Stem(tlg_file)

\* Line 60.
CompositeTlgId(folder_name, tlg_id) == folder_name \o "/" \o tlg_id

\* Lines 67-69.
OutFilename(folder_name, tlg_id) ==
    SafeName(folder_name) \o "-" \o SafeName(tlg_id) \o ".csv"

\* df.insert(0, 'CompositeTLGID', ...) raises ValueError when the frame
\* already has a column of that name.
InsertRaises(df) == \E c \in 1..Len(df.columns) : df.columns[c] = "CompositeTLGID"

HeaderLineBare(columns) ==
    [kind |-> "header", cols |-> Tail(columns), tag |-> "", vals |-> <<>>]

\* The header line to_csv writes for a frame.
HeaderLine(columns) == [kind |-> "header", cols |-> columns, tag |-> "", vals |-> <<>>]

RowLines(df, tag) ==
    [r \in 1..Len(df.rows) |->
        [kind |-> "row", cols |-> <<"CompositeTLGID">> \o df.columns, tag |-> tag,
         vals |-> df.rows[r]]]

ToCsvOverwrite(files, name, df, tag) ==
    DictPut(files, name,
            <<HeaderLine(<<"CompositeTLGID">> \o df.columns)>> \o RowLines(df, tag))

\* Lines 73-78: append without a header to a file that exists, else write
\* the header and the rows.
ToCsv(files, name, df, tag) ==
    IF DictHas(files, name)
    THEN DictPut(files, name, DictGet(files, name) \o RowLines(df, tag))
    ELSE DictPut(files, name,
                 <<HeaderLine(<<"CompositeTLGID">> \o df.columns)>> \o RowLines(df, tag))

\* Lines 42-79: the loop over pa.tasks from the i-th task (from 1) on; the
\* files written, what was written to them, and whether the loop raised.
RECURSIVE ExportLoop(_, _, _, _)
ExportLoop(tasks, i, folder_name, acc) ==
    IF i > Len(tasks) \/ acc.raised THEN acc
    ELSE LET df == tasks[i]
         IN  IF ~df.frame THEN ExportLoop(tasks, i + 1, folder_name, acc)
             ELSE IF InsertRaises(df)
             THEN [acc EXCEPT !.raised = TRUE]
             ELSE LET tlg_id == TlgId(df, i - 1)
                      tag == CompositeTlgId(folder_name, tlg_id)
                      name == OutFilename(folder_name, tlg_id)
                  IN  ExportLoop(tasks, i + 1, folder_name,
                          [files |-> ToCsv(acc.files, name, df, tag),
                           written |-> Append(acc.written,
                                              [file |-> name, df |-> df, tag |-> tag]),
                           raised |-> FALSE])

TaskAfterInsertInPlace(df, tag) ==
    [df EXCEPT !.columns = <<"CompositeTLGID">> \o @]

\* Lines 63-64: the column is inserted into df.copy(), which the name df is
\* rebound to; the frame in pa.tasks is what it was.
TaskAfterExport(df, tag) == df

\* pa.tasks after the loop of lines 42-79, from the i-th task (from 1) on.
RECURSIVE TasksAfterLoop(_, _, _)
TasksAfterLoop(tasks, i, folder_name) ==
    IF i > Len(tasks) THEN tasks
    ELSE IF ~tasks[i].frame THEN TasksAfterLoop(tasks, i + 1, folder_name)
    ELSE IF InsertRaises(tasks[i]) THEN tasks
    ELSE TasksAfterLoop(
             [tasks EXCEPT ![i] = TaskAfterExport(
                 @, CompositeTlgId(folder_name, TlgId(@, i - 1)))],
             i + 1, folder_name)

\* The document of a folder, as handed to parse_taskdata_to_dataframe.
XmlPathOf(path) == path \o "/TASKDATA.XML"

\* taskdata_report.py line 77: file_path.parent.name
ParentName(file_path) ==
    CASE file_path = "data/TASKDATA/TASKDATA.XML"   -> "TASKDATA"
      [] file_path = "data/TASKDATA 2/TASKDATA.XML" -> "TASKDATA 2"
      [] file_path = "/fake/path/TASKDATA.XML"      -> "path"

\* taskdata_report.py lines 140-142: composite_tlg_ids of a task with the
\* given TLG children.
RECURSIVE CompositeTlgIds(_, _)
CompositeTlgIds(file_path, tlg_files) ==
    IF tlg_files = <<>> THEN <<>>
    ELSE LET before == CompositeTlgIds(file_path, SubSeq(tlg_files, 1, Len(tlg_files) - 1))
             tlg_id == tlg_files[Len(tlg_files)]
         IN  IF Truthy(tlg_id)
             THEN Append(before, ParentName(file_path) \o "/" \o tlg_id)
             ELSE before

InitExp ==
    /\ csv_files = <<>>
    /\ exports = <<>>
    /\ expPc = "ready"
    /\ RingIdle /\ GeoIdle /\ ResIdle
    /\ DecIdle /\ TdIdle /\ RepIdle /\ AgIdle

\* The task lists a call can find in pa.tasks: one gathered from the
\* folder, or the very frames the call before it was given.
TasksGathered ==
    TaskLists \cup {exports[n].tasks_after : n \in {Len(exports)} \ {0}}

\* One call of export_taskdata into the output directory.
ExportTaskdata ==
    /\ expPc = "ready"
    /\ Len(exports) < MaxExport
    /\ \E path \in ExportPaths, tasks \in TasksGathered :
          LET folder_name == PathName(path)
              out == ExportLoop(tasks, 1, folder_name,
                                [files |-> csv_files, written |-> <<>>,
                                 raised |-> FALSE])
          IN  /\ csv_files' = out.files
              /\ exports' = Append(exports, [path |-> path, folder_name |-> folder_name,
                                             tasks |-> tasks, written |-> out.written,
                                             raised |-> out.raised,
                                             tasks_after |->
                                                TasksAfterLoop(tasks, 1, folder_name)])
    /\ UNCHANGED expPc
    /\ UNCHANGED <<ringVars, geoVars, resVars, decVars, tdVars, repVars, agVars>>

NextExp == ExportTaskdata

SpecExp == InitExp /\ [][NextExp]_vars

(***************************************************************************)
(* Claims about the exported CSV files.                                    *)
(***************************************************************************)
\* Everything the export calls wrote, in call order.
RECURSIVE WrittenUpTo(_)
WrittenUpTo(n) == IF n = 0 THEN <<>> ELSE WrittenUpTo(n - 1) \o exports[n].written

WrittenTo(name) ==
    LET IsIt(w) == w.file = name IN SelectSeq(WrittenUpTo(Len(exports)), IsIt)

RECURSIVE RowsOf(_)
RowsOf(ws) ==
    IF ws = <<>> THEN <<>>
    ELSE RowsOf(SubSeq(ws, 1, Len(ws) - 1)) \o RowLines(ws[Len(ws)].df, ws[Len(ws)].tag)

\* C17: each CSV holds one header line, then the rows of every export to it
\* in call order: nothing is overwritten and no second header is written.
C17_OneHeaderThenAllRows ==
    \A i \in 1..Len(csv_files) :
        LET lines == csv_files[i].v
        IN  /\ Len(lines) >= 1
            /\ lines[1].kind = "header"
            /\ \A n \in 2..Len(lines) : lines[n].kind = "row"
            /\ SubSeq(lines, 2, Len(lines)) = RowsOf(WrittenTo(csv_files[i].k))

\* C17: two calls exported rows to the same file, and it holds the rows of
\* both.
C17_SecondExportAppended ==
    /\ Len(exports) = 2
    /\ \E i \in 1..Len(csv_files) :
          /\ \E w \in 1..Len(exports[1].written) :
                /\ exports[1].written[w].file = csv_files[i].k
                /\ Len(exports[1].written[w].df.rows) = 2
          /\ \E w \in 1..Len(exports[2].written) :
                /\ exports[2].written[w].file = csv_files[i].k
                /\ Len(exports[2].written[w].df.rows) = 1
          /\ Len(csv_files[i].v) = 4

C19_CsvTagJoinsTaskRow ==
    \A e \in 1..Len(exports) : \A w \in 1..Len(exports[e].written) :
        LET ids == CompositeTlgIds(XmlPathOf(exports[e].path),
                                   <<exports[e].written[w].df.tlg>>)
            lines == DictGet(csv_files, exports[e].written[w].file)
        IN  /\ ids = <<exports[e].written[w].tag>>
            /\ \A n \in 2..Len(lines) :
                  \E f \in 1..Len(exports) : \E x \in 1..Len(exports[f].written) :
                      /\ exports[f].written[x].file = exports[e].written[w].file
                      /\ <<lines[n].tag>> =
                            CompositeTlgIds(XmlPathOf(exports[f].path),
                                            <<exports[f].written[x].df.tlg>>)

\* C24: export_taskdata leaves every DataFrame of the task list as it was,
\* so a second export of the same task list from the same folder writes
\* the same rows with the same columns as the first.
C24_TasksUnchangedByExport ==
    /\ \A e \in 1..Len(exports) : exports[e].tasks_after = exports[e].tasks
    /\ \A e \in 2..Len(exports) :
          (/\ exports[e].tasks = exports[e - 1].tasks_after
           /\ exports[e].path = exports[e - 1].path)
          => /\ exports[e].written = exports[e - 1].written
             /\ exports[e].raised = exports[e - 1].raised

\* C24 witness: the same two frames were exported twice from one folder,
\* and both calls wrote them.
C24_SameTasksExportedTwice ==
    /\ Len(exports) = 2
    /\ exports[2].tasks = exports[1].tasks_after
    /\ exports[2].path = exports[1].path
    /\ Len(exports[1].written) = 2
    /\ Len(exports[2].written) = 2

(***************************************************************************)
(* extract_taskdata_to_geojson (pyAgriculture/geo.py lines 26-152): one    *)
(* call with a source folder and an output path.  The document is read as  *)
(* a list of PFD and TSK elements in document order; the three passes of   *)
(* the function over root.iter() are the operators below.                  *)
(***************************************************************************)
\* The feature of the file written by test_geojson_append before the call;
\* it has a TaskID and a geometry and no other property.
ExistingFeature ==
    [TaskID |-> "existing", LogFilename |-> NoneVal, Year |-> UnknownKey,
     Crop |-> NoneVal, FieldName |-> NoneVal, FieldID |-> NoneVal,
     geometry |-> [type |-> "Polygon", coordinates |-> <<<<>>>>]]

\* The output path before the call: no file, an empty FeatureCollection, or
\* a FeatureCollection with one feature.
OutFiles ==
    {NoFile,
     [exists |-> TRUE, features |-> <<>>],
     [exists |-> TRUE, features |-> <<ExistingFeature>>]}

TdFolders == {FolderA, FolderA2, FolderB, FolderEmpty}

\* The last child with the given tag (lines 93-100: every match overwrites
\* the one before); used only when there is one.
LastChild(children, tag) ==
    children[CHOOSE i \in 1..Len(children) :
                /\ children[i].tag = tag
                /\ \A j \in (i + 1)..Len(children) : children[j].tag # tag]

\* Lines 49-82: the dict field_geoms; a PFD without polygons leaves the
\* entry of its id as it was.
RECURSIVE FieldGeoms(_)
FieldGeoms(elems) ==
    IF elems = <<>> THEN <<>>
    ELSE LET before == FieldGeoms(SubSeq(elems, 1, Len(elems) - 1))
             elem == elems[Len(elems)]
         IN  IF elem.tag = "PFD" /\ HasGeometry(Polygons(elem.children))
             THEN DictPut(before, elem.A, Polygons(elem.children))
             ELSE before

\* Line 54: the dict field_names.
RECURSIVE FieldNames(_)
FieldNames(elems) ==
    IF elems = <<>> THEN <<>>
    ELSE LET before == FieldNames(SubSeq(elems, 1, Len(elems) - 1))
             elem == elems[Len(elems)]
         IN  IF elem.tag = "PFD"
             THEN DictPut(before, elem.A,
                          IF elem.C = NoneVal THEN "Unknown_" \o elem.A ELSE elem.C)
             ELSE before

\* Line 103.
TdLogFilename(tlg) == IF Truthy(tlg.A) THEN tlg.A \o ".bin" ELSE NoneVal

\* Lines 106-109.
TdCrop(tsk, prods) ==
    IF HasChild(tsk.children, "PAN")
    THEN DictGetOr(prods, LastChild(tsk.children, "PAN").A, "Unknown")
    ELSE "Unknown"

\* Lines 111-118.
TdYear(tsk) ==
    IF HasChild(tsk.children, "TIM")
    THEN LET tim == LastChild(tsk.children, "TIM")
         IN  IF Truthy(tim.A) /\ IsoParses(tim.A)
             THEN YearKey(IsoYear(tim.A))
             ELSE UnknownKey
    ELSE UnknownKey

\* Lines 120-143: the feature of a task whose field has a geometry.
TdFeature(tsk, prods, geoms, names) ==
    [TaskID |-> tsk.A,
     LogFilename |-> TdLogFilename(LastChild(tsk.children, "TLG")),
     Year |-> TdYear(tsk),
     Crop |-> TdCrop(tsk, prods),
     FieldName |-> DictGetOr(names, tsk.E, "Unknown"),
     FieldID |-> tsk.E,
     geometry |-> Geometry(DictGet(geoms, tsk.E))]

\* Lines 85-144: the list `features` after the loop over the TSK elements.
RECURSIVE TaskFeatures(_, _, _, _)
TaskFeatures(elems, prods, geoms, names) ==
    IF elems = <<>> THEN <<>>
    ELSE LET before == TaskFeatures(SubSeq(elems, 1, Len(elems) - 1),
                                    prods, geoms, names)
             elem == elems[Len(elems)]
         IN  IF elem.tag # "TSK" THEN before
             ELSE IF ~HasChild(elem.children, "TLG") THEN before
             ELSE IF ~DictHas(geoms, elem.E) THEN before
             ELSE Append(before, TdFeature(elem, prods, geoms, names))

\* Lines 146-150: the file is opened with 'w' and the new collection dumped.
DumpGeojson(file, feats) == [exists |-> TRUE, features |-> feats]

InitTd ==
    /\ td_folder \in TdFolders
    /\ old_file \in OutFiles
    /\ out_file = old_file
    /\ td_elems = <<>>
    /\ td_features = <<>>
    /\ tdPc = "find"
    /\ RingIdle /\ GeoIdle /\ ResIdle /\ DecIdle /\ ExpIdle /\ RepIdle /\ AgIdle

\* Line 35: _find_taskdata_file; its FileNotFoundError leaves the function.
FindTaskdata ==
    /\ tdPc = "find"
    /\ tdPc' = IF FindTaskdataFile(td_folder) = NoneVal THEN "raised" ELSE "parse"
    /\ UNCHANGED <<out_file, old_file, td_folder, td_elems, td_features>>
    /\ UNCHANGED <<ringVars, geoVars, resVars, decVars, expVars, repVars, agVars>>

\* Lines 37-38: the next PFD or TSK element of the parsed document.
ReadElement ==
    /\ tdPc = "parse"
    /\ Len(td_elems) < MaxElem
    /\ \E elem \in PfdElems \cup TskElems : td_elems' = Append(td_elems, elem)
    /\ UNCHANGED <<out_file, old_file, td_folder, td_features, tdPc>>
    /\ UNCHANGED <<ringVars, geoVars, resVars, decVars, expVars, repVars, agVars>>

\* Lines 40-152 on the whole document: the features are built and written.
WriteGeojson ==
    /\ tdPc = "parse"
    /\ td_features' = TaskFeatures(td_elems, ParseProducts(td_folder.pdts),
                                   FieldGeoms(td_elems), FieldNames(td_elems))
    /\ out_file' = DumpGeojson(out_file, td_features')
    /\ tdPc' = "written"
    /\ UNCHANGED <<old_file, td_folder, td_elems>>
    /\ UNCHANGED <<ringVars, geoVars, resVars, decVars, expVars, repVars, agVars>>

NextTd == FindTaskdata \/ ReadElement \/ WriteGeojson

SpecTd == InitTd /\ [][NextTd]_vars

(***************************************************************************)
(* Claims about the output file of extract_taskdata_to_geojson.            *)
(***************************************************************************)
\* C20: when the output file already holds a FeatureCollection, the call
\* keeps every existing feature and adds the extracted ones: after it the
\* file holds the old features followed by the new features.
C20_ExistingFeaturesKept ==
    (tdPc = "written" /\ old_file.exists)
        => out_file.features = old_file.features \o td_features

(***************************************************************************)
(* parse_taskdata_to_dataframe on one document (taskdata_report.py lines   *)
(* 75-223).  A document is its default namespace ("" when it has none) and *)
(* the FRM, PFD, PDT, DVC and TSK elements in it, in document order; an    *)
(* element is a direct child of the root (depth 0) or lies deeper.         *)
(***************************************************************************)
MaxNode == 3        \* elements of the document

NsUri == "urn:iso11783"

\* elem.tag as ElementTree gives it: '{uri}local', or 'local' without a
\* namespace; held as its two parts.
QName(ns, local) == [ns |-> ns, local |-> local]

\* A tag name written in the code, such as 'TSK'.
PlainTag(local) == QName("", local)

\* _local_tag_name (geo.py lines 17-18): the part after the last '}'.
LocalTagName(q) == q.local

Node(tag, depth, elem) == [tag |-> tag, depth |-> depth, elem |-> elem]

Frm(a, b) == [A |-> a, B |-> b]
RepPfd(a, b, c) == [A |-> a, B |-> b, C |-> c]
RepTsk(a, e, pans, dan, dlvs) ==
    [A |-> a, E |-> e, pans |-> pans, dan |-> dan, dlvs |-> dlvs]

RepTsks ==
    {RepTsk("T1", "F1", <<"P1">>, dan, <<dlv>>) :
        dan \in {"DVC1", NoneVal},
        dlv \in {Dlv("0001", "12345", "DET2"), Dlv("0003", "-17", NoneVal)}}

RepNodes ==
    {Node("FRM", 0, Frm("FRM1", "Home")),
     Node("PFD", 0, RepPfd("F1", NoneVal, "North")),
     Node("PFD", 1, RepPfd("F1", "Back", NoneVal)),
     Node("PDT", 0, Pdt("P1", "Wheat")),
     Node("DVC", 0, Dvc1), Node("DVC", 1, Dvc1), Node("DVC", 0, Dvc2),
     Node("TSK", 1, RepTsk("T2", "F1", <<"P1", "P2">>, "DVC2", <<>>))}
    \cup {Node("TSK", 0, t) : t \in RepTsks}

\* root.findall(tag): the direct children of the root whose tag is exactly
\* the given one.
FindAll(doc, tag) ==
    LET Hit(n) == n.depth = 0 /\ QName(doc.ns, n.tag) = PlainTag(tag)
        hits == SelectSeq(doc.nodes, Hit)
    IN  [i \in 1..Len(hits) |-> hits[i].elem]

FindAllPrefix(doc, tag, pos) ==
    FindAll([doc EXCEPT !.nodes = SubSeq(doc.nodes, 1, pos)], tag)

CatalogElemsSoFar(doc, tag, pos) == FindAllPrefix(doc, tag, pos)

\* The elements a catalog is built from when the task at position pos of
\* the document is resolved: lines 82-121 run over the whole document
\* before the TSK loop of line 123 starts.
CatalogElems(doc, tag, pos) == FindAll(doc, tag)

\* Line 82 and line 204: farms, and the farm name of every row.
FarmName(frms) ==
    IF frms = <<>> THEN "Unknown Farm"
    ELSE IF frms[1].B = NoneVal THEN "Unknown Farm" ELSE frms[1].B

\* Lines 84-88: fields.
RECURSIVE RepFields(_)
RepFields(pfds) ==
    IF pfds = <<>> THEN <<>>
    ELSE LET pfd == pfds[Len(pfds)]
         IN  DictPut(RepFields(SubSeq(pfds, 1, Len(pfds) - 1)), pfd.A,
                     IF Truthy(pfd.C) THEN pfd.C
                     ELSE IF Truthy(pfd.B) THEN pfd.B
                     ELSE "Field " \o pfd.A)

\* Line 90: products.
RECURSIVE RepProducts(_)
RepProducts(pdts) ==
    IF pdts = <<>> THEN <<>>
    ELSE LET pdt == pdts[Len(pdts)]
         IN  DictPut(RepProducts(SubSeq(pdts, 1, Len(pdts) - 1)), pdt.A,
                     IF pdt.B = NoneVal THEN "Unknown Product" ELSE pdt.B)

\* Lines 129-130: the crops of a task, the names joined by ", ".
RECURSIVE TaskCrops(_, _)
TaskCrops(pans, prods) ==
    IF pans = <<>> THEN <<>>
    ELSE LET before == TaskCrops(SubSeq(pans, 1, Len(pans) - 1), prods)
         IN  IF DictHas(prods, pans[Len(pans)])
             THEN Append(before, DictGet(prods, pans[Len(pans)]))
             ELSE before

\* Lines 132-138.
MachineName(dan, dvc_info) ==
    IF dan # NoneVal /\ DictHas(dvc_info, dan)
    THEN DictGet(dvc_info, dan).name
    ELSE "Generic Machine"

\* Lines 154-190: logged_values of a task.
RECURSIVE LoggedValues(_, _, _, _)
LoggedValues(dlvs, det_to_dvc, dvc_info, dan) ==
    IF dlvs = <<>> THEN <<>>
    ELSE LET before == LoggedValues(SubSeq(dlvs, 1, Len(dlvs) - 1),
                                    det_to_dvc, dvc_info, dan)
             entry == EntryOf(ResolveDlv(det_to_dvc, dvc_info, dlvs[Len(dlvs)], dan))
         IN  IF \E i \in 1..Len(before) : before[i] = entry THEN before
             ELSE Append(before, entry)

\* Lines 124-223: the row of the task at position pos of the document.
TaskRow(doc, pos) ==
    LET tsk == doc.nodes[pos].elem
        dvcs == CatalogElems(doc, "DVC", pos)
        fields == RepFields(CatalogElems(doc, "PFD", pos))
    IN  [Farm |-> FarmName(CatalogElems(doc, "FRM", pos)),
         Field |-> DictGetOr(fields, tsk.E, "Unknown Field (" \o tsk.E \o ")"),
         FieldID |-> tsk.E,
         TaskID |-> tsk.A,
         Machine |-> MachineName(tsk.dan, DvcInfo(dvcs)),
         Crop |-> TaskCrops(tsk.pans, RepProducts(CatalogElems(doc, "PDT", pos))),
         props |-> LoggedValues(tsk.dlvs, DetToDvc(dvcs), DvcInfo(dvcs), tsk.dan)]

\* Line 123: the positions root.findall('TSK') yields, in document order.
TskPositions(doc) ==
    LET Hit(i) == /\ doc.nodes[i].depth = 0
                  /\ QName(doc.ns, doc.nodes[i].tag) = PlainTag("TSK")
    IN  SelectSeq([i \in 1..Len(doc.nodes) |-> i], Hit)

\* all_task_rows after the loop of line 123.
TaskRows(doc) ==
    LET ps == TskPositions(doc)
    IN  [i \in 1..Len(ps) |-> TaskRow(doc, ps[i])]

InitRep ==
    /\ rep_doc \in {[ns |-> ns, nodes |-> <<>>] : ns \in {"", NsUri}}
    /\ rep_rows = <<>>
    /\ repPc = "read"
    /\ RingIdle /\ GeoIdle /\ ResIdle /\ DecIdle /\ ExpIdle /\ TdIdle /\ AgIdle

\* ET.parse (lines 79-80): the next element of the document.
ReadNode ==
    /\ repPc = "read"
    /\ Len(rep_doc.nodes) < MaxNode
    /\ \E n \in RepNodes : rep_doc' = [rep_doc EXCEPT !.nodes = Append(@, n)]
    /\ UNCHANGED <<rep_rows, repPc>>
    /\ UNCHANGED <<ringVars, geoVars, resVars, decVars, expVars, tdVars, agVars>>

\* Lines 82-247 on the whole document.  With no row at all the frame has
\* no column, and selecting ordered_cols from it (line 247) raises KeyError.
ParseTaskdata ==
    /\ repPc = "read"
    /\ rep_rows' = TaskRows(rep_doc)
    /\ repPc' = IF rep_rows' = <<>> THEN "raised" ELSE "parsed"
    /\ UNCHANGED rep_doc
    /\ UNCHANGED <<ringVars, geoVars, resVars, decVars, expVars, tdVars, agVars>>

NextRep == ReadNode \/ ParseTaskdata

SpecRep == InitRep /\ [][NextRep]_vars

(***************************************************************************)
(* Claims about the catalogs of one document.                              *)
(***************************************************************************)
\* The document without its namespace and with every element a direct child
\* of the root.
Flattened(doc) ==
    [ns |-> "", nodes |-> [i \in 1..Len(doc.nodes) |->
                             [doc.nodes[i] EXCEPT !.depth = 0]]]

\* C22: a namespaced document and the same document without namespaces
\* produce identical catalogs and outputs, and entities are found at any
\* nesting depth: the rows of a document are the rows of its elements read
\* without namespace, whatever their depth.
C22_NamespaceAndDepthIgnored ==
    repPc \in {"parsed", "raised"} => rep_rows = TaskRows(Flattened(rep_doc))

\* The document with its TSK elements moved behind all other elements.
IsTskNode(n) == n.tag = "TSK"
IsCatalogNode(n) == n.tag # "TSK"
CatalogsFirst(doc) ==
    [doc EXCEPT !.nodes = SelectSeq(doc.nodes, IsCatalogNode)
                            \o SelectSeq(doc.nodes, IsTskNode)]

\* C23: catalog building completes before any resolution: the rows of a
\* document are those of the same document with every TSK element placed
\* behind the DVC, PDT, PFD and FRM elements, whatever the order was.
C23_CatalogsCompleteBeforeTasks ==
    repPc \in {"parsed", "raised"} =>
        rep_rows = TaskRows(CatalogsFirst(rep_doc))

\* C23 witness: a task that precedes the device it is resolved under got
\* the machine name and the property of that device.
C23_TaskBeforeItsDevice ==
    /\ repPc = "parsed"
    /\ \E i \in 1..Len(rep_doc.nodes) : \E j \in 1..Len(rep_doc.nodes) :
          /\ i < j
          /\ rep_doc.nodes[i].tag = "TSK" /\ rep_doc.nodes[i].depth = 0
          /\ rep_doc.nodes[j].tag = "DVC" /\ rep_doc.nodes[j].depth = 0
          /\ rep_doc.nodes[j].elem.A = rep_doc.nodes[i].elem.dan
    /\ \E r \in 1..Len(rep_rows) :
          /\ rep_rows[r].Machine = "Combine"
          /\ rep_rows[r].props # <<>>
          /\ rep_rows[r].props[1].name = "Speed"

(***************************************************************************)
(* The choice of the decode implementation when pyagri.agriculture is      *)
(* loaded, as test_cython_availability.py exercises it: the module probes  *)
(* the compiled extension once, at load, and every PyAgriculture object    *)
(* takes its read_with_cython from the module flag.                        *)
(***************************************************************************)
MaxInst == 4        \* PyAgriculture objects constructed

ProbeAlwaysTrue(importable) == TRUE

\* try: from .cython_agri import ...  except: from .cython_agri_py import ...
ProbeCython(importable) == importable

\* The functions bound at load: those of the extension, or the pure-Python
\* ones of cython_agri_py.
BoundImpl(flag) == IF flag THEN "cython_agri" ELSE "cython_agri_py"

InitAg ==
    /\ cython_importable \in BOOLEAN
    /\ CYTHON_AVAILABLE = NotLoaded
    /\ ag_instances = <<>>
    /\ agPc = "unloaded"
    /\ RingIdle /\ GeoIdle /\ ResIdle /\ DecIdle /\ ExpIdle /\ TdIdle /\ RepIdle

\* monkeypatch.setitem(sys.modules, 'pyagri.cython_agri', ...): the
\* extension appears or disappears; a loaded module keeps what it bound.
SetImportable ==
    /\ agPc \in {"unloaded", "loaded"}
    /\ cython_importable' = ~cython_importable
    /\ UNCHANGED <<CYTHON_AVAILABLE, ag_instances, agPc>>
    /\ UNCHANGED <<ringVars, geoVars, resVars, decVars, expVars, tdVars, repVars>>

\* importlib.import_module / importlib.reload of pyagri.agriculture; the
\* objects constructed before keep their attributes.
LoadAgriculture ==
    /\ agPc \in {"unloaded", "loaded"}
    /\ CYTHON_AVAILABLE' = [loaded |-> TRUE,
                            flag |-> ProbeCython(cython_importable),
                            impl |-> BoundImpl(ProbeCython(cython_importable))]
    /\ agPc' = "loaded"
    /\ UNCHANGED <<cython_importable, ag_instances>>
    /\ UNCHANGED <<ringVars, geoVars, resVars, decVars, expVars, tdVars, repVars>>

\* PyAgriculture(path)
Construct ==
    /\ agPc = "loaded"
    /\ Len(ag_instances) < MaxInst
    /\ ag_instances' = Append(ag_instances,
                              [read_with_cython |-> CYTHON_AVAILABLE.flag,
                               importable_now |-> cython_importable])
    /\ UNCHANGED <<cython_importable, CYTHON_AVAILABLE, agPc>>
    /\ UNCHANGED <<ringVars, geoVars, resVars, decVars, expVars, tdVars, repVars>>

NextAg == SetImportable \/ LoadAgriculture \/ Construct

SpecAg == InitAg /\ [][NextAg]_vars

\* C26: the flag _CYTHON_AVAILABLE is what the probe of pyagri.cython_agri
\* met when the module was loaded, whatever became of the extension later;
\* every PyAgriculture object has read_with_cython equal to the flag, and
\* the pure-Python functions are bound exactly when the flag is False.
C26_FlagIsProbeAtLoad ==
    [][/\ LoadAgriculture =>
            /\ CYTHON_AVAILABLE'.flag = cython_importable
            /\ CYTHON_AVAILABLE'.impl =
                  (IF cython_importable THEN "cython_agri" ELSE "cython_agri_py")
       /\ ~LoadAgriculture => CYTHON_AVAILABLE' = CYTHON_AVAILABLE
       /\ Construct =>
            ag_instances'[Len(ag_instances')].read_with_cython = CYTHON_AVAILABLE.flag
       /\ \A i \in 1..Len(ag_instances) :
            i <= Len(ag_instances') => ag_instances'[i] = ag_instances[i]]_vars

\* C26 witness: the module was loaded without the extension, the extension
\* appeared afterwards, and an object constructed then reads without it.
C26_LoadedWithoutExtension ==
    /\ agPc = "loaded"
    /\ ~CYTHON_AVAILABLE.flag
    /\ CYTHON_AVAILABLE.impl = "cython_agri_py"
    /\ cython_importable
    /\ \E i \in 1..Len(ag_instances) :
          /\ ~ag_instances[i].read_with_cython
          /\ ag_instances[i].importable_now

=============================================================================
